---- MODULE Spec2Model ----
(***************************************************************************)
(* Model of the patent tool's core: the completion gateway                 *)
(* (gemini_client.py: generate_content, generate_json_content), the        *)
(* bounded concurrent dispatchers (batch_generate, batch_generate_json,    *)
(* batch_generate_patents) and the record store (patent_assistant.py).     *)
(*                                                                         *)
(* Texts are sequences of tokens.  A token stands for a piece of text the  *)
(* code tests for (the error prefix, a code fence, whitespace, a JSON      *)
(* value, a word); an exception message is a sequence of word tokens.      *)
(***************************************************************************)
EXTENDS Integers, Sequences, FiniteSets, TLC

VARIABLES
    \* ---- generate_content (one call) ----
    outcomes,       \* what the completion collaborator does on attempt 1, 2, ...
    max_retries,    \* the max_retries argument
    attempt,        \* the loop variable of "for attempt in range(max_retries)"
    gpc,            \* position of the call: "loop", "sleep", "done"
    calls,          \* number of client.chat.completions.create calls made
    sleeps,         \* the time.sleep durations, in order
    content,        \* the returned text (<<>> until the call returns)
    \* ---- generate_json_content (one call) ----
    jpc,            \* "idle", "call" (inside generate_content), "done"
    jresult,        \* the returned value
    \* ---- one batch dispatch (batch_generate, batch_generate_json,
    \*      batch_generate_patents) ----
    dkind,          \* which of the three dispatchers runs
    inputs,         \* prompts / patent_ideas, with what each unit of work meets
    max_workers,    \* the max_workers argument
    dpc,            \* main thread: "submit", "collect", "stored" (the batch
                    \* is in the store), "returned", "raised",
                    \* "ideas" (generate_patent_ideas has returned)
    future,         \* per index: "new", "pending", "running", "finished"
    fresult,        \* per finished future: the value or exception it holds
    results,        \* the results / patents list: filled slots only
    yielded,        \* the indices as_completed has yielded, in order
    starts,         \* per index: how many times its unit of work was started
    dret,           \* the returned list
    patent_ideas,   \* what generate_patent_ideas makes of that list
    \* ---- the record store (PatentAssistant) and the threads calling it ----
    patents,        \* self.patents, the in-memory collection
    file,           \* the durable file self.data_file
    backup,         \* the sibling .backup file
    lock,           \* self._lock: 0 when free, else the holding thread
    now,            \* the clock, in epoch seconds
    faults,         \* file-system failures injected so far
    ops,            \* operations begun so far that can change the store
    th,             \* per thread: position, operation, arguments and locals
    \* ---- the objects behind the collection and what a caller holds ----
    hrecs,          \* the record dicts, by address
    hlists,         \* the features lists, by address
    srefs,          \* self.patents: the addresses of its records, in order
    held,           \* what the caller got back: a list and a record
    edits,          \* changes the caller made to what it holds
    deep0,          \* the content of the collection after construction
    \* ---- the construction of a store over a file of any content ----
    cfile,          \* the durable file found
    cstore,         \* the value self.patents is bound to
    cpc             \* "new" inside __init__ before _load_patents, "ready"

gvars == <<outcomes, max_retries, attempt, gpc, calls, sleeps, content>>

jvars == <<jpc, jresult>>

dvars ==
    <<dkind, inputs, max_workers, dpc, future, fresult, results, yielded,
      starts, dret, patent_ideas>>

svars == <<patents, file, backup, lock, now, faults, ops, th>>

hvars == <<hrecs, hlists, srefs, held, edits, deep0>>

cvars == <<cfile, cstore, cpc>>

\* everything but the variables of the generate_json_content call
nonjvars == <<dvars, svars, hvars, cvars>>

\* everything but the variables of the generate_content call
nongvars == <<jvars, dvars, svars, hvars, cvars>>

\* everything but the variables of the dispatch
nondvars == <<gvars, jvars, svars, hvars, cvars>>

\* everything but the variables of the store
nonsvars == <<gvars, jvars, dvars, hvars, cvars>>

\* everything but the objects a caller can reach
nonhvars == <<gvars, jvars, dvars, svars, cvars>>

\* everything but the variables of the construction
noncvars == <<gvars, jvars, dvars, svars, hvars>>

vars == <<gvars, jvars, dvars, svars, hvars, cvars>>

(***************************************************************************)
(* Bounds                                                                  *)
(***************************************************************************)
MaxRetriesBound == 3
MaxTextLen == 3
MaxBatch == 3
NumThreads == 2
MaxOps == 2
MaxClock == 1
MaxFaults == 2
MaxSeqOps == 3
MaxHeapDocs == 2
MaxEdits == 2
MaxCopies == 2
MaxFileDocs == 2

\* the default of generate_content's max_retries parameter
DefaultMaxRetries == 3

(***************************************************************************)
(* Text tokens                                                             *)
(***************************************************************************)
\* gemini_client.py:96,98,121 and patent_assistant.py:190: the literal prefix
\* of every error text of generate_content
ErrorPrefix == "API_CALL_ERROR:"

\* gemini_client.py:84: the fixed text returned for an empty completion
NoContentText == <<"MODEL_RETURNED_NO_EXPECTED_CONTENT">>

\* gemini_client.py:98: the text returned when the for loop runs out
MaxRetriesText == <<ErrorPrefix, "MAX_RETRIES_REACHED">>

\* gemini_client.py:91: the keywords of a retryable error
TransientKeywords ==
    {"timeout", "connection", "network", "rate limit", "429", "503", "502"}

\* str.lower() on a message token (gemini_client.py:90)
Lower(tok) ==
    CASE tok = "Timeout" -> "timeout"
      [] tok = "Connection" -> "connection"
      [] tok = "Network" -> "network"
      [] tok = "Error" -> "error"
      [] tok = "Unauthorized" -> "unauthorized"
      [] OTHER -> tok

\* any(keyword in error_msg.lower() for keyword in [...]) (gemini_client.py:90-91)
HasTransientKeywordNoLower(msg) ==
    \E i \in 1..Len(msg) : msg[i] \in TransientKeywords

HasTransientKeyword(msg) ==
    \E i \in 1..Len(msg) : Lower(msg[i]) \in TransientKeywords

\* text.startswith("API 调用错误:") (gemini_client.py:121, patent_assistant.py:190)
StartsWithErrorPrefix(text) ==
    Len(text) > 0 /\ text[1] = ErrorPrefix

(***************************************************************************)
(* The completion collaborator: what one create() call does                *)
(***************************************************************************)
Ok(text) == [kind |-> "ok", val |-> text]
Empty == [kind |-> "empty", val |-> <<>>]
Raise(msg) == [kind |-> "raise", val |-> msg]

\* exception messages str(e) the collaborator can raise
ErrorMsgs ==
    { <<"Request", "Timeout">>, <<"Connection", "error">>, <<"network">>,
      <<"rate limit">>, <<"Error", "429">>, <<"Error", "503">>,
      <<"Error", "502">>, <<"Error", "401", "Unauthorized">>,
      <<"timed out">> }

\* completion texts of a successful call, for the gateway's own checks
GatewayTexts == { <<"W">>, <<ErrorPrefix, "W">> }

GatewayOutcomes ==
    {Ok(t) : t \in GatewayTexts} \cup {Empty} \cup {Raise(m) : m \in ErrorMsgs}

(***************************************************************************)
(* generate_content, step by step (gemini_client.py:63-98)                 *)
(***************************************************************************)
\* wait_time = (attempt + 1) * 2 (gemini_client.py:92)
WaitTimeConstant(att) == 2

WaitTime(att) == (att + 1) * 2

\* "continue" takes the for loop to the next value of range(max_retries)
\* (gemini_client.py:63,94)
NextAttemptStuck(att) == att

NextAttempt(att) == att + 1

\* the retry test of the except handler (gemini_client.py:90-91)
ShouldRetryAnyError(att, mr, msg) == att < mr - 1

ShouldRetryNoLower(att, mr, msg) ==
    att < mr - 1 /\ HasTransientKeywordNoLower(msg)

ShouldRetryOnLastAttempt(att, mr, msg) == HasTransientKeyword(msg)

ShouldRetry(att, mr, msg) ==
    att < mr - 1 /\ HasTransientKeyword(msg)

\* what the except handler returns when it does not retry (gemini_client.py:96)
ErrorText(msg) == <<ErrorPrefix>> \o msg

\* generate_content as a function of the collaborator's behaviour: the text it
\* returns, the number of create() calls and the sleeps (gemini_client.py:63-98)
RECURSIVE GenerateContentFrom(_, _, _)
GenerateContentFrom(outs, mr, att) ==
    IF att >= mr
    THEN [text |-> MaxRetriesText, calls |-> 0, sleeps |-> <<>>]
    ELSE LET o == outs[att + 1] IN
         CASE o.kind = "ok" ->
                [text |-> o.val, calls |-> 1, sleeps |-> <<>>]
           [] o.kind = "empty" ->
                [text |-> NoContentText, calls |-> 1, sleeps |-> <<>>]
           [] OTHER ->
                IF ShouldRetry(att, mr, o.val)
                THEN LET r == GenerateContentFrom(outs, mr, NextAttempt(att)) IN
                     [text |-> r.text, calls |-> r.calls + 1,
                      sleeps |-> <<WaitTime(att)>> \o r.sleeps]
                ELSE [text |-> ErrorText(o.val), calls |-> 1, sleeps |-> <<>>]

generate_content(outs, mr) == GenerateContentFrom(outs, mr, 0)

(***************************************************************************)
(* generate_json_content (gemini_client.py:117-150)                        *)
(***************************************************************************)
\* the fence of a code block labelled json, and a bare fence (three backticks)
FenceJson == "FENCE_JSON"
Fence == "FENCE"
Whitespace == "WS"

\* a Python value returned by generate_json_content: its type, the keys it
\* has when it is a dict, and the values of its error and raw_content keys
PyValue(type, keys, error, raw) ==
    [type |-> type, keys |-> keys, error |-> error, raw_content |-> raw]

NoValue == PyValue("None", {}, <<>>, <<>>)

\* the tokens that are one complete JSON document, and what json.loads gives
JsonTokens == {"OBJ", "OBJ_TITLE", "OBJ_ERROR", "ARR"}

JsonValue(tok) ==
    CASE tok = "OBJ" -> PyValue("dict", {"title", "features"}, <<>>, <<>>)
      [] tok = "OBJ_TITLE" -> PyValue("dict", {"title"}, <<>>, <<>>)
      [] tok = "OBJ_ERROR" -> PyValue("dict", {"error"}, <<"W">>, <<>>)
      [] OTHER -> PyValue("list", {}, <<>>, <<>>)

IsFence(tok) == tok \in {Fence, FenceJson}

\* content.find(FENCE, start) on tokens: the first position >= from holding
\* a fence of either kind, 0 when there is none (-1 in Python)
FindFence(text, from) ==
    IF \E i \in from..Len(text) : IsFence(text[i])
    THEN CHOOSE i \in from..Len(text) :
            IsFence(text[i]) /\ \A k \in from..(i - 1) : ~IsFence(text[k])
    ELSE 0

\* content.find(FENCE_JSON): the first json fence, 0 when there is none
FindFenceJson(text) ==
    IF \E i \in 1..Len(text) : text[i] = FenceJson
    THEN CHOOSE i \in 1..Len(text) :
            text[i] = FenceJson /\ \A k \in 1..(i - 1) : text[k] # FenceJson
    ELSE 0

\* str.strip(): drop the leading and trailing whitespace
RECURSIVE Strip(_)
Strip(text) ==
    IF text = <<>> THEN text
    ELSE IF Head(text) = Whitespace THEN Strip(Tail(text))
    ELSE IF text[Len(text)] = Whitespace
         THEN Strip(SubSeq(text, 1, Len(text) - 1))
    ELSE text

\* lines 125-136: the text between the first fence and the next one
ExtractWholeText(text) == text

ExtractFenced(text) ==
    IF \E i \in 1..Len(text) : text[i] = FenceJson
    THEN LET json_start == FindFenceJson(text) + 1
             json_end == FindFence(text, json_start)
         IN IF json_end # 0
            THEN Strip(SubSeq(text, json_start, json_end - 1))
            ELSE text
    ELSE IF \E i \in 1..Len(text) : text[i] = Fence
    THEN LET json_start == FindFence(text, 1) + 1
             json_end == FindFence(text, json_start)
         IN IF json_end # 0
            THEN Strip(SubSeq(text, json_start, json_end - 1))
            ELSE text
    ELSE text

\* lines 139-143: strip, then cut a leading and a trailing bare fence (three
\* characters: cutting them from a json fence leaves the word json)
CleanFences(text) ==
    LET a == Strip(text)
        b == IF a # <<>> /\ Head(a) = Fence THEN Strip(Tail(a))
             ELSE IF a # <<>> /\ Head(a) = FenceJson
                  THEN <<"json">> \o Tail(a)
             ELSE a
        c == IF b # <<>> /\ b[Len(b)] = Fence
             THEN Strip(SubSeq(b, 1, Len(b) - 1))
             ELSE b
    IN c

\* json.loads succeeds on one JSON document with optional whitespace around
JsonParses(text) ==
    Len(Strip(text)) = 1 /\ Strip(text)[1] \in JsonTokens

\* lines 121-122, 145, 147-148: the value returned for the text that
\* generate_content returned
ParseResultNoPrefixCheck(text) ==
    LET json_content == CleanFences(ExtractFenced(text)) IN
    IF JsonParses(json_content)
    THEN JsonValue(Strip(json_content)[1])
    ELSE PyValue("dict", {"error", "raw_content"}, <<"JSON_DECODE_ERROR">>, text)

ParseResult(text) ==
    IF StartsWithErrorPrefix(text)
    THEN PyValue("dict", {"error"}, text, <<>>)
    ELSE LET json_content == CleanFences(ExtractFenced(text)) IN
         IF JsonParses(json_content)
         THEN JsonValue(Strip(json_content)[1])
         ELSE PyValue("dict", {"error", "raw_content"},
                      <<"JSON_DECODE_ERROR">>, text)

\* the whole call as a function of the collaborator's behaviour
generate_json_content(outs) ==
    ParseResult(generate_content(outs, DefaultMaxRetries).text)

JsonIdle == jpc = "idle" /\ jresult = NoValue

GatewayIdle ==
    /\ outcomes = <<>> /\ max_retries = 0 /\ attempt = 0 /\ gpc = "idle"
    /\ calls = 0 /\ sleeps = <<>> /\ content = <<>>

DispatchIdle ==
    /\ dkind = "none" /\ inputs = <<>> /\ max_workers = 0 /\ dpc = "idle"
    /\ future = <<>> /\ fresult = <<>> /\ results = <<>> /\ yielded = <<>>
    /\ starts = <<>>
    /\ dret = <<>> /\ patent_ideas = <<>>

StoreIdle ==
    /\ patents = <<>> /\ file = <<>> /\ backup = <<>> /\ lock = 0 /\ now = 0
    /\ faults = 0 /\ ops = 0 /\ th = <<>>

ConstructIdle == cfile = <<>> /\ cstore = <<>> /\ cpc = "idle"

HeapIdle ==
    /\ hrecs = <<>> /\ hlists = <<>> /\ srefs = <<>> /\ held = <<>>
    /\ edits = 0 /\ deep0 = <<>>

GatewayInit ==
    /\ JsonIdle /\ DispatchIdle /\ StoreIdle /\ HeapIdle
    /\ ConstructIdle
    /\ max_retries \in 0..MaxRetriesBound
    /\ outcomes \in [1..MaxRetriesBound -> GatewayOutcomes]
    /\ attempt = 0
    /\ gpc = "loop"
    /\ calls = 0
    /\ sleeps = <<>>
    /\ content = <<>>

\* lines 79-82: the call succeeds with non-empty content
AttemptReturnsContent ==
    /\ gpc = "loop" /\ attempt < max_retries
    /\ outcomes[attempt + 1].kind = "ok"
    /\ calls' = calls + 1
    /\ content' = outcomes[attempt + 1].val
    /\ gpc' = "done"
    /\ UNCHANGED <<outcomes, max_retries, attempt, sleeps>>
    /\ UNCHANGED nongvars

\* lines 79-84: the call succeeds with empty or missing content
AttemptReturnsNoContent ==
    /\ gpc = "loop" /\ attempt < max_retries
    /\ outcomes[attempt + 1].kind = "empty"
    /\ calls' = calls + 1
    /\ content' = NoContentText
    /\ gpc' = "done"
    /\ UNCHANGED <<outcomes, max_retries, attempt, sleeps>>
    /\ UNCHANGED nongvars

\* lines 86-92: the call raises and the handler decides to retry
AttemptRaisesRetry ==
    /\ gpc = "loop" /\ attempt < max_retries
    /\ outcomes[attempt + 1].kind = "raise"
    /\ ShouldRetry(attempt, max_retries, outcomes[attempt + 1].val)
    /\ calls' = calls + 1
    /\ gpc' = "sleep"
    /\ UNCHANGED <<outcomes, max_retries, attempt, sleeps, content>>
    /\ UNCHANGED nongvars

\* lines 93-94: time.sleep(wait_time); continue
Sleep ==
    /\ gpc = "sleep"
    /\ sleeps' = Append(sleeps, WaitTime(attempt))
    /\ attempt' = NextAttempt(attempt)
    /\ gpc' = "loop"
    /\ UNCHANGED <<outcomes, max_retries, calls, content>>
    /\ UNCHANGED nongvars

\* lines 86-96: the call raises and the handler returns the error text
AttemptRaisesReturn ==
    /\ gpc = "loop" /\ attempt < max_retries
    /\ outcomes[attempt + 1].kind = "raise"
    /\ ~ShouldRetry(attempt, max_retries, outcomes[attempt + 1].val)
    /\ calls' = calls + 1
    /\ content' = ErrorText(outcomes[attempt + 1].val)
    /\ gpc' = "done"
    /\ UNCHANGED <<outcomes, max_retries, attempt, sleeps>>
    /\ UNCHANGED nongvars

\* line 98: range(max_retries) is exhausted
LoopExhausted ==
    /\ gpc = "loop" /\ attempt >= max_retries
    /\ content' = MaxRetriesText
    /\ gpc' = "done"
    /\ UNCHANGED <<outcomes, max_retries, attempt, calls, sleeps>>
    /\ UNCHANGED nongvars

GatewayNext ==
    \/ AttemptReturnsContent
    \/ AttemptReturnsNoContent
    \/ AttemptRaisesRetry
    \/ Sleep
    \/ AttemptRaisesReturn
    \/ LoopExhausted

SpecGateway == GatewayInit /\ [][GatewayNext]_vars

FairSpecGateway == SpecGateway /\ WF_vars(GatewayNext)

(***************************************************************************)
(* One generate_json_content call: generate_content with the default       *)
(* max_retries (line 118), then the checks of lines 121-148.  The handler  *)
(* of lines 149-150 needs an exception other than JSONDecodeError, which   *)
(* neither generate_content nor the string operations raise on a text.     *)
(***************************************************************************)
JsonAlphabet ==
    {ErrorPrefix, FenceJson, Fence, Whitespace, "W", "OBJ", "OBJ_ERROR", "ARR"}

\* completion texts of a successful call
JsonTexts == UNION { [1..n -> JsonAlphabet] : n \in 1..MaxTextLen }

\* what the collaborator does on a retry
RetryOutcomes == { Ok(<<"OBJ">>), Raise(<<"network">>) }

JsonOutcomeSeqs ==
    { <<o1, o2, o3>> :
        o1 \in {Ok(t) : t \in JsonTexts}
                \cup {Empty, Raise(<<"network">>), Raise(<<"Error", "401">>)},
        o2 \in RetryOutcomes, o3 \in RetryOutcomes }

JsonInit ==
    /\ max_retries = DefaultMaxRetries
    /\ outcomes \in JsonOutcomeSeqs
    /\ attempt = 0
    /\ gpc = "loop"
    /\ calls = 0
    /\ sleeps = <<>>
    /\ content = <<>>
    /\ jpc = "call"
    /\ jresult = NoValue
    /\ DispatchIdle /\ StoreIdle /\ HeapIdle
    /\ ConstructIdle

\* lines 121-122: the text starts with the error prefix
JsonReturnsApiError ==
    /\ jpc = "call" /\ gpc = "done"
    /\ StartsWithErrorPrefix(content)
    /\ jresult' = ParseResult(content)
    /\ jpc' = "done"
    /\ UNCHANGED gvars
    /\ UNCHANGED nonjvars

\* lines 125-145: json.loads succeeds
JsonReturnsParsed ==
    /\ jpc = "call" /\ gpc = "done"
    /\ ~StartsWithErrorPrefix(content)
    /\ JsonParses(CleanFences(ExtractFenced(content)))
    /\ jresult' = ParseResult(content)
    /\ jpc' = "done"
    /\ UNCHANGED gvars
    /\ UNCHANGED nonjvars

\* lines 125-148: json.loads raises JSONDecodeError
JsonReturnsDecodeError ==
    /\ jpc = "call" /\ gpc = "done"
    /\ ~StartsWithErrorPrefix(content)
    /\ ~JsonParses(CleanFences(ExtractFenced(content)))
    /\ jresult' = ParseResult(content)
    /\ jpc' = "done"
    /\ UNCHANGED gvars
    /\ UNCHANGED nonjvars

\* line 118 runs generate_content: its steps are those of the call above
JsonNext ==
    \/ AttemptReturnsContent
    \/ AttemptReturnsNoContent
    \/ AttemptRaisesRetry
    \/ Sleep
    \/ AttemptRaisesReturn
    \/ JsonReturnsApiError
    \/ JsonReturnsParsed
    \/ JsonReturnsDecodeError

SpecJson == JsonInit /\ [][JsonNext]_vars

\* the step-by-step call and the function generate_json_content agree
JsonMatchesFunction ==
    jpc = "done" => jresult = generate_json_content(outcomes)

\* an error result: a dict carrying an error key
IsErrorResult(v) == v.type = "dict" /\ "error" \in v.keys

\* C9: generate_json_content returns an error result (a dict carrying an
\* error key) exactly when generate_content returned an error text or the
\* extracted text does not parse as JSON, and on a parse failure the error
\* result carries the raw completion text.
C9_ErrorResultIffErrorOrParseFailure ==
    jpc = "done" =>
        /\ IsErrorResult(jresult) <=>
              \/ StartsWithErrorPrefix(content)
              \/ ~JsonParses(CleanFences(ExtractFenced(content)))
        /\ (~StartsWithErrorPrefix(content)
              /\ ~JsonParses(CleanFences(ExtractFenced(content))))
             => ("raw_content" \in jresult.keys /\ jresult.raw_content = content)

\* the step-by-step call and the function generate_content agree
GatewayMatchesFunction ==
    gpc = "done" =>
        [text |-> content, calls |-> calls, sleeps |-> sleeps]
            = generate_content(outcomes, max_retries)

\* attempts 1..k of the call all raise a transient (keyword-matching) error
TransientUpTo(k) ==
    \A j \in 1..k :
        outcomes[j].kind = "raise" /\ HasTransientKeyword(outcomes[j].val)

\* the first attempt raises an error matching none of the keywords
FirstAttemptPermanent ==
    /\ max_retries >= 1
    /\ outcomes[1].kind = "raise"
    /\ \A i \in 1..Len(outcomes[1].val) :
          Lower(outcomes[1].val[i]) \notin TransientKeywords

\* C4: when the collaborator raises an error whose message matches none of the
\* transient keywords, generate_content makes exactly one attempt, never
\* sleeps and returns the error text at once, for every max_retries >= 1.
C4_PermanentOneAttempt ==
    FirstAttemptPermanent =>
        /\ gpc # "sleep"
        /\ sleeps = <<>>
        /\ calls <= 1
        /\ gpc = "done" =>
              calls = 1 /\ content = <<ErrorPrefix>> \o outcomes[1].val

C4_Witness ==
    FirstAttemptPermanent /\ max_retries = MaxRetriesBound /\ gpc = "done"

C6_ExhaustedReturnsMaxRetriesText ==
    (max_retries >= 1 /\ TransientUpTo(max_retries) /\ gpc = "done") =>
        content = MaxRetriesText

\* C7: for every sequence of collaborator outcomes and every max_retries >= 0,
\* generate_content calls the collaborator at most max_retries times and
\* always terminates by returning a text.
C7_BoundedAndTerminates ==
    /\ [](calls <= max_retries)
    /\ <>(gpc = "done" /\ content # <<>>)

C7_Witness ==
    /\ max_retries = MaxRetriesBound /\ TransientUpTo(max_retries)
    /\ gpc = "done" /\ calls = max_retries

(***************************************************************************)
(* The batch dispatchers (gemini_client.py:157-241,                        *)
(* patent_assistant.py:210-291).  An input carries what its unit of work   *)
(* meets: the collaborator's behaviour for its request and, when the unit  *)
(* raises, the exception's message.  Timestamps (generated_at) are left    *)
(* out of the documents.                                                   *)
(***************************************************************************)
DispatchKinds == {"batch_generate", "batch_generate_json", "batch_generate_patents"}

Input(id, error, outs, exc) ==
    [id |-> id, title |-> <<"TITLE">> \o id, error |-> error, outs |-> outs,
     exc |-> exc]

\* a PatentDocument (patent_assistant.py:194-201, 230-237, 250-257, 277-284)
\* updated_at is <<>> while the key is absent
Doc(id, title, text, status) ==
    [id |-> id, title |-> title, content |-> text, status |-> status,
     updated_at |-> <<>>]

\* idea["id"].replace("idea_", "patent_") (patent_assistant.py:251, 278)
PatentId(id) == IF Head(id) = "idea" THEN <<"patent">> \o Tail(id) ELSE id

\* "error" in idea (patent_assistant.py:229)
HasError(idea) == idea.error # <<>>

\* generate_single_patent (patent_assistant.py:227-257)
generate_single_patent(idea) ==
    IF HasError(idea)
    THEN Doc(idea.id, idea.title, <<"CANNOT_GENERATE:">> \o idea.error, "error")
    ELSE Doc(PatentId(idea.id), idea.title,
             generate_content(idea.outs, DefaultMaxRetries).text, "draft")

\* the unit of work raises (its exception escapes the submitted callable)
UnitRaises(kind, item) ==
    item.exc # <<>> /\ ~(kind = "batch_generate_patents" /\ HasError(item))

\* the generate_content calls a unit that returns has made: none for an
\* idea with an error field, one otherwise (gemini_client.py:152-155,
\* 221-222; patent_assistant.py:229, 242-246)
UnitGatewayCallsAlwaysOne(kind, item) == 1

UnitGatewayCalls(kind, item) ==
    IF kind = "batch_generate_patents" /\ HasError(item) THEN 0 ELSE 1

\* the value the submitted callable returns (gemini_client.py:152-155,
\* 221-222; patent_assistant.py:227-257)
UnitValue(kind, item) ==
    CASE kind = "batch_generate" ->
            generate_content(item.outs, DefaultMaxRetries).text
      [] kind = "batch_generate_json" -> generate_json_content(item.outs)
      [] OTHER -> generate_single_patent(item)

\* the value the except handler of the collecting loop stores
\* (gemini_client.py:196, 239; patent_assistant.py:276-284)
FailureValue(kind, item, msg) ==
    CASE kind = "batch_generate" -> <<"GENERATION_FAILED:">> \o msg
      [] kind = "batch_generate_json" ->
            PyValue("dict", {"error"}, <<"GENERATION_FAILED:">> \o msg, <<>>)
      [] OTHER -> Doc(PatentId(item.id), item.title,
                      <<"PATENT_GENERATION_ERROR:">> \o msg, "error")

\* results[index] = value (gemini_client.py:194, 196, 237, 239;
\* patent_assistant.py:273, 277)
StoreResultInCompletionOrder(res, index, value) ==
    ((Cardinality(DOMAIN res) + 1) :> value) @@ res

StoreResult(res, index, value) ==
    (index :> value) @@ [k \in (DOMAIN res) \ {index} |-> res[k]]

\* "except Exception" catches the exception future.result() re-raises
\* (gemini_client.py:195, 238; patent_assistant.py:274)
CatchesNothing(msg) == FALSE

Catches(msg) == TRUE

Yielded == {yielded[k] : k \in DOMAIN yielded}
Running == {i \in DOMAIN future : future[i] = "running"}
Pending == {i \in DOMAIN future : future[i] = "pending"}

\* ThreadPoolExecutor(max_workers): a queued unit starts when one of the
\* max_workers worker threads is free (gemini_client.py:182, 225;
\* patent_assistant.py:261)
PoolHasFreeWorkerOffByOne(running, workers) == Cardinality(running) <= workers

PoolHasFreeWorker(running, workers) == Cardinality(running) < workers

\* a finished future is taken off the pool for good; a unit is never re-queued
AfterFinishRequeue(i) == "pending"

AfterFinish(i) == "finished"

OutsOk == [k \in 1..DefaultMaxRetries |-> Ok(<<"W">>)]
OutsJson == [k \in 1..DefaultMaxRetries |-> Ok(<<"OBJ">>)]

\* a completion that is a JSON object with a title and no features
OutsJsonTitle == [k \in 1..DefaultMaxRetries |-> Ok(<<"OBJ_TITLE">>)]
OutsFail == [k \in 1..DefaultMaxRetries |-> Raise(<<"Error", "401">>)]

\* what an input can meet, per dispatcher; b[1] is the idea's error field,
\* b[2] the collaborator's behaviour, b[3] the exception the unit raises
Behaviours(kind) ==
    CASE kind = "batch_generate" ->
            { <<<<>>, OutsOk, <<>>>>, <<<<>>, OutsFail, <<>>>>,
              <<<<>>, OutsOk, <<"boom">>>> }
      [] kind = "batch_generate_json" ->
            { <<<<>>, OutsJson, <<>>>>, <<<<>>, OutsOk, <<>>>>,
              <<<<>>, OutsJsonTitle, <<>>>>, <<<<>>, OutsFail, <<>>>>,
              <<<<>>, OutsJson, <<"boom">>>> }
      [] OTHER ->
            { <<<<>>, OutsOk, <<>>>>, <<<<>>, OutsFail, <<>>>>,
              <<<<"INCOMPLETE_JSON">>, OutsOk, <<>>>>,
              <<<<>>, OutsOk, <<"boom">>>> }

\* the input lists of length n: ideas carry positional ids idea_<i>
InputLists(kind, n) ==
    { [i \in 1..n |-> Input(<<"idea", i>>, b[i][1], b[i][2], b[i][3])] :
        b \in [1..n -> Behaviours(kind)] }

DispatchInit ==
    /\ GatewayIdle /\ JsonIdle /\ StoreIdle /\ HeapIdle
    /\ ConstructIdle
    /\ dkind \in DispatchKinds
    /\ \E n \in 0..MaxBatch : inputs \in InputLists(dkind, n)
    /\ max_workers \in 1..MaxBatch
    /\ dpc = "submit"
    /\ future = [i \in 1..Len(inputs) |-> "new"]
    /\ fresult = <<>>
    /\ results = <<>>
    /\ yielded = <<>>
    /\ starts = [i \in 1..Len(inputs) |-> 0]
    /\ dret = <<>>
    /\ patent_ideas = <<>>

\* executor.submit(...) for the next input, in list order
\* (gemini_client.py:183-186, 226-229; patent_assistant.py:262-265)
Submit ==
    /\ dpc = "submit"
    /\ \E i \in DOMAIN future :
        /\ future[i] = "new"
        /\ \A k \in 1..(i - 1) : future[k] # "new"
        /\ future' = [future EXCEPT ![i] = "pending"]
    /\ UNCHANGED <<patent_ideas, dkind, inputs, max_workers, dpc, fresult, results, yielded,
                   starts, dret>>
    /\ UNCHANGED nondvars

\* results = [None] * len(prompts), then the as_completed loop begins
\* (gemini_client.py:189-190, 232-233; patent_assistant.py:268-269)
BeginCollect ==
    /\ dpc = "submit"
    /\ \A i \in DOMAIN future : future[i] # "new"
    /\ dpc' = "collect"
    /\ results' = <<>>
    /\ UNCHANGED <<patent_ideas, dkind, inputs, max_workers, future, fresult, yielded,
                   starts, dret>>
    /\ UNCHANGED nondvars

\* a free worker thread takes the oldest queued unit and calls it
Start ==
    /\ \E i \in Pending :
        /\ \A k \in Pending : i <= k
        /\ PoolHasFreeWorker(Running, max_workers)
        /\ future' = [future EXCEPT ![i] = "running"]
        /\ starts' = [starts EXCEPT ![i] = @ + 1]
    /\ UNCHANGED <<patent_ideas, dkind, inputs, max_workers, dpc, fresult, results, yielded,
                   dret>>
    /\ UNCHANGED nondvars

\* a running unit returns or raises; its future holds the outcome, and
\* gcalls counts the generate_content calls the unit made (a unit that
\* raises does so before or after its call)
Finish ==
    /\ \E i \in Running, c \in 0..1 :
        /\ ~UnitRaises(dkind, inputs[i]) =>
                c = UnitGatewayCalls(dkind, inputs[i])
        /\ future' = [future EXCEPT ![i] = AfterFinish(i)]
        /\ fresult' =
             (i :> IF UnitRaises(dkind, inputs[i])
                   THEN [raised |-> TRUE, val |-> inputs[i].exc, gcalls |-> c]
                   ELSE [raised |-> FALSE, val |-> UnitValue(dkind, inputs[i]),
                         gcalls |-> c])
             @@ fresult
    /\ UNCHANGED <<patent_ideas, dkind, inputs, max_workers, dpc, results, yielded, starts,
                   dret>>
    /\ UNCHANGED nondvars

\* as_completed yields a finished future whose result() returns
\* (gemini_client.py:190-194, 233-237; patent_assistant.py:269-273)
CollectResult ==
    /\ dpc = "collect"
    /\ \E i \in (DOMAIN fresult) \ Yielded :
        /\ ~fresult[i].raised
        /\ results' = StoreResult(results, i, fresult[i].val)
        /\ yielded' = Append(yielded, i)
    /\ UNCHANGED <<patent_ideas, dkind, inputs, max_workers, dpc, future, fresult, starts,
                   dret>>
    /\ UNCHANGED nondvars

\* as_completed yields a finished future whose result() raises
\* (gemini_client.py:195-196, 238-239; patent_assistant.py:274-284)
CollectException ==
    /\ dpc = "collect"
    /\ \E i \in (DOMAIN fresult) \ Yielded :
        /\ fresult[i].raised
        /\ yielded' = Append(yielded, i)
        /\ IF Catches(fresult[i].val)
           THEN /\ results' = StoreResult(results, i,
                                FailureValue(dkind, inputs[i], fresult[i].val))
                /\ dpc' = dpc
           ELSE /\ results' = results
                /\ dpc' = "raised"
    /\ UNCHANGED <<patent_ideas, dkind, inputs, max_workers, future, fresult, starts, dret>>
    /\ UNCHANGED nondvars

\* batch_generate_patents only: as_completed is exhausted, the with block
\* of the executor ends, and the filled slots are appended to the store's
\* collection (patent_assistant.py:286-288; the snapshot write of line 289
\* is the store's _save_patents)
BatchExtend ==
    /\ dkind = "batch_generate_patents"
    /\ dpc = "collect"
    /\ Yielded = DOMAIN future
    /\ patents' = patents \o [i \in 1..Cardinality(DOMAIN results) |-> results[i]]
    /\ dpc' = "stored"
    /\ UNCHANGED <<patent_ideas, dkind, inputs, max_workers, future, fresult,
                   results, yielded, starts, dret>>
    /\ UNCHANGED <<file, backup, lock, now, faults, ops, th>>
    /\ UNCHANGED <<gvars, jvars, hvars, cvars>>

\* the dispatch is over: the collecting loop has ended and, in
\* batch_generate_patents, the store has the documents
ReadyToReturnEarly ==
    IF dkind = "batch_generate_patents"
    THEN dpc = "stored"
    ELSE dpc = "collect"

ReadyToReturn ==
    IF dkind = "batch_generate_patents"
    THEN dpc = "stored"
    ELSE dpc = "collect" /\ Yielded = DOMAIN future

\* as_completed is exhausted, the with block ends (shutdown waits for the
\* workers) and the list is returned
\* (gemini_client.py:198, 241; patent_assistant.py:291)
Return ==
    /\ ReadyToReturn
    /\ dret' = results
    /\ dpc' = "returned"
    /\ UNCHANGED <<patent_ideas, dkind, inputs, max_workers, future, fresult, results,
                   yielded, starts>>
    /\ UNCHANGED nondvars

\* the id of the i-th idea: f"idea_{i+1}" for the 0-based index
\* (patent_assistant.py:131, 137, 153)
IdeaId(i) == <<"idea", i>>

\* one pass of the loop of generate_patent_ideas over result number i
\* (patent_assistant.py:127-158): the result with its id, or an idea that
\* carries an error field
IdeaOf(result, i) ==
    IF result.type = "dict" /\ "error" \notin result.keys
    THEN IF "title" \in result.keys /\ "features" \in result.keys
         THEN [id |-> IdeaId(i), title |-> <<"TITLE_OF_RESULT">>,
               error |-> <<>>]
         ELSE [id |-> IdeaId(i),
               title |-> IF "title" \in result.keys
                         THEN <<"TITLE_OF_RESULT">> ELSE <<"IDEA", i>>,
               error |-> <<"INCOMPLETE_JSON">>]
    ELSE [id |-> IdeaId(i), title |-> <<"GENERATION_FAILED", i>>,
          error |-> IF result.type = "dict" /\ "error" \in result.keys
                    THEN result.error
                    ELSE IF result.type = "str" THEN result.raw_content
                    ELSE <<"UNKNOWN_ERROR">>]

\* the list generate_patent_ideas returns for the results of its dispatch
\* (patent_assistant.py:125-160)
generate_patent_ideasDropsFailures(res) ==
    LET all == [i \in 1..Len(res) |-> IdeaOf(res[i], i)]
        IsOk(idea) == idea.error = <<>>
    IN SelectSeq(all, IsOk)

generate_patent_ideas(res) == [i \in 1..Len(res) |-> IdeaOf(res[i], i)]

\* generate_patent_ideas goes through the list batch_generate_json returned
\* and returns the ideas (patent_assistant.py:117-160)
GeneratePatentIdeas ==
    /\ dkind = "batch_generate_json"
    /\ dpc = "returned"
    /\ patent_ideas' = generate_patent_ideas(dret)
    /\ dpc' = "ideas"
    /\ UNCHANGED <<dkind, inputs, max_workers, future, fresult, results,
                   yielded, starts, dret>>
    /\ UNCHANGED nondvars

DispatchNext ==
    \/ GeneratePatentIdeas
    \/ BatchExtend
    \/ Submit
    \/ BeginCollect
    \/ Start
    \/ Finish
    \/ CollectResult
    \/ CollectException
    \/ Return

SpecDispatch == DispatchInit /\ [][DispatchNext]_vars


\* what the dispatcher is to return at index i, from input i alone
ExpectedResult(i) ==
    IF inputs[i].exc # <<>>
          /\ ~(dkind = "batch_generate_patents" /\ inputs[i].error # <<>>)
    THEN FailureValue(dkind, inputs[i], inputs[i].exc)
    ELSE UnitValue(dkind, inputs[i])

\* C1: for every input list of length N and every max_workers, each batch
\* dispatcher returns exactly N results, result[i] being the output of the
\* unit of work run on input[i], whatever the order in which the units
\* complete and whatever max_workers is.
C1_ResultsAlignedWithInputs ==
    dpc = "returned" =>
        /\ DOMAIN dret = 1..Len(inputs)
        /\ \A i \in 1..Len(inputs) :
              inputs[i].exc = <<>> => dret[i] = UnitValue(dkind, inputs[i])

\* a batch of two different inputs returned after the second unit finished
\* and was collected before the first
C1_Witness ==
    /\ dpc = "returned" /\ Len(inputs) = MaxBatch /\ max_workers = 2
    /\ inputs[1].exc = <<>> /\ inputs[2].exc = <<>>
    /\ UnitValue(dkind, inputs[1]) # UnitValue(dkind, inputs[2])
    /\ yielded[1] = 2 /\ yielded[2] = 1
    /\ dret[1] = UnitValue(dkind, inputs[1])
    /\ dret[2] = UnitValue(dkind, inputs[2])

\* C2: when the unit of work of one item of a batch of size N >= 2 raises,
\* the dispatcher stores a synthesized failure value at that index, the other
\* results are what they are in a run where that unit did not fail (the
\* outputs of their own units), and the batch call does not raise.
C2_FailureIsolated ==
    /\ dpc # "raised"
    /\ dpc = "returned" =>
          \A i \in 1..Len(inputs) :
              (Len(inputs) >= 2 /\ i \in DOMAIN fresult /\ fresult[i].raised) =>
                  /\ dret[i] = FailureValue(dkind, inputs[i], inputs[i].exc)
                  /\ \A j \in (1..Len(inputs)) \ {i} :
                        ~fresult[j].raised =>
                            dret[j] = UnitValue(dkind, inputs[j])

C2_Witness ==
    /\ dpc = "returned" /\ Len(inputs) >= 2
    /\ fresult[1].raised /\ ~fresult[2].raised
    /\ dret[1] = FailureValue(dkind, inputs[1], inputs[1].exc)
    /\ dret[2] = UnitValue(dkind, inputs[2])

\* C3: during one dispatch never more than max_workers units of work run at
\* the same time, and the unit of every input is started exactly once.
C3_PoolBoundAndStartedOnce ==
    /\ Cardinality(Running) <= max_workers
    /\ \A i \in DOMAIN starts : starts[i] <= 1
    /\ dpc = "returned" => \A i \in DOMAIN starts : starts[i] = 1

\* the pool is full while a further unit waits in the queue
C3_Witness ==
    /\ Cardinality(Running) = max_workers
    /\ Pending # {}
    /\ max_workers = 2


(***************************************************************************)
(* The record store (patent_assistant.py:19-94, 163-208, 286-388) and the  *)
(* threads that call its operations.  A file is absent, holds a snapshot   *)
(* or holds a partial (truncated or half-written) text.  last_updated and  *)
(* generated_at are timestamps and are left out.                           *)
(***************************************************************************)
Threads == 1..NumThreads

Absent == [kind |-> "absent", patents |-> <<>>, total_count |-> 0]
Partial == [kind |-> "partial", patents |-> <<>>, total_count |-> 0]

\* json.dump of a record dict: a JSON object with the keys the dict has; a
\* record that was never updated has no updated_at key
\* (patent_assistant.py:80, 337)
JsonDumpDoc(d) ==
    [k \in (IF d.updated_at = <<>> THEN DOMAIN d \ {"updated_at"}
                                    ELSE DOMAIN d) |-> d[k]]

\* json.load of such an object (patent_assistant.py:43)
JsonLoadDoc(o) ==
    [k \in DOMAIN o \cup {"updated_at"} |->
        IF k \in DOMAIN o THEN o[k] ELSE <<>>]

\* the data dict of _save_patents as json.dump writes it
\* (patent_assistant.py:55-59)
SnapshotStaleCount(ps) ==
    [kind |-> "snapshot",
     patents |-> [i \in 1..Len(ps) |-> JsonDumpDoc(ps[i])],
     total_count |-> 0]

Snapshot(ps) ==
    [kind |-> "snapshot",
     patents |-> [i \in 1..Len(ps) |-> JsonDumpDoc(ps[i])],
     total_count |-> Len(ps)]

\* a valid JSON file of another shape: a top-level array, an object without
\* the patents key, or an object whose patents value is not a list
WrongShapes ==
    {"array", "no_key", "patents_null", "patents_number", "patents_string",
     "patents_object"}

WrongShape(k) == [kind |-> k, patents |-> <<>>, total_count |-> 0]

\* a value self.patents can be bound to: a list of records or, from a file
\* of another shape, a str or a dict
PyList(items) == [shape |-> "list", items |-> items]
PyOther(shape) == [shape |-> shape, items |-> <<>>]

\* _load_patents (patent_assistant.py:38-50): the value self.patents is bound
\* to afterwards.  No file: unchanged.  json.load or data.get raising
\* (not JSON, top-level array): [].  No patents key: the default [].  A
\* patents value without len() (null, a number): len() raises in line 45,
\* so [].  Any other patents value is kept as it is.
LoadValueKeepsOld(f, old) == old

LoadValue(f, old) ==
    CASE f.kind = "absent" -> old
      [] f.kind = "snapshot" ->
            PyList([i \in 1..Len(f.patents) |-> JsonLoadDoc(f.patents[i])])
      [] f.kind = "patents_string" -> PyOther("str")
      [] f.kind = "patents_object" -> PyOther("dict")
      [] OTHER -> PyList(<<>>)

\* the same for the files the store itself writes, which hold lists
LoadPatents(f, old) == LoadValue(f, PyList(old)).items

\* os.path.exists (patent_assistant.py:41, 63, 65, 88)
Exists(f) == f.kind # "absent"

\* status of a generated document (patent_assistant.py:189-191)
StatusOfTreatsNoContentAsError(text) ==
    IF StartsWithErrorPrefix(text) \/ text = NoContentText
    THEN "error" ELSE "draft"

StatusOf(text) == IF StartsWithErrorPrefix(text) THEN "error" ELSE "draft"

\* f"patent_{int(datetime.now().timestamp())}_{len(self.patents) + 1}"
\* (patent_assistant.py:195)
NewPatentId(clock, ps) == <<"patent", clock, Len(ps) + 1>>

\* the index of the first record with this id, 0 when there is none
\* (patent_assistant.py:326-327, 334-335, 345-346)
IndexOf(ps, pid) ==
    IF \E i \in 1..Len(ps) : ps[i].id = pid
    THEN CHOOSE i \in 1..Len(ps) :
            ps[i].id = pid /\ \A k \in 1..(i - 1) : ps[k].id # pid
    ELSE 0

\* dict.update(updates), then updated_at is set (patent_assistant.py:336-337)
ApplyUpdateKeepsTimestamp(doc, updates, clock) ==
    [f \in DOMAIN doc |->
        IF f \in DOMAIN updates THEN updates[f] ELSE doc[f]]

ApplyUpdate(doc, updates, clock) ==
    [f \in DOMAIN doc |->
        IF f = "updated_at" THEN <<"TIME">>
        ELSE IF f \in DOMAIN updates THEN updates[f] ELSE doc[f]]

\* del self.patents[i] (patent_assistant.py:347)
RemoveAt(ps, i) == SubSeq(ps, 1, i - 1) \o SubSeq(ps, i + 1, Len(ps))

CountStatus(ps, status) ==
    Cardinality({i \in 1..Len(ps) : ps[i].status = status})

\* get_statistics (patent_assistant.py:379-388); success_rate is the
\* fraction draft_count * 100 / total, kept as numerator and denominator
get_statisticsAlwaysDivides(ps) ==
    [total_patents |-> Len(ps),
     draft_patents |-> CountStatus(ps, "draft"),
     error_patents |-> CountStatus(ps, "error"),
     success_rate |-> <<CountStatus(ps, "draft") * 100, Len(ps)>>]

get_statistics(ps) ==
    [total_patents |-> Len(ps),
     draft_patents |-> CountStatus(ps, "draft"),
     error_patents |-> CountStatus(ps, "error"),
     success_rate |-> IF Len(ps) > 0
                      THEN <<CountStatus(ps, "draft") * 100, Len(ps)>>
                      ELSE <<0, 1>>]

\* export_patents_text (patent_assistant.py:360-370)
export_patents_text(ps) ==
    [i \in 1..Len(ps) |->
        <<ps[i].title, ps[i].id, ps[i].status, ps[i].content>>]

ReadOps ==
    {"get_patents", "get_patent_by_id", "export_patents_json",
     "export_patents_text", "get_statistics"}

\* what a read operation returns (patent_assistant.py:318-329, 352-388)
ReadValue(op, ps, pid) ==
    CASE op = "get_patents" -> ps
      [] op = "get_patent_by_id" ->
            IF IndexOf(ps, pid) # 0 THEN ps[IndexOf(ps, pid)] ELSE <<>>
      [] op = "export_patents_json" -> ps
      [] op = "export_patents_text" -> export_patents_text(ps)
      [] OTHER -> get_statistics(ps)

\* the list batch_generate_patents hands to the store: what its dispatch
\* returns for these ideas (patent_assistant.py:259-284)
BatchDocs(ideas) ==
    [i \in 1..Len(ideas) |->
        IF UnitRaises("batch_generate_patents", ideas[i])
        THEN FailureValue("batch_generate_patents", ideas[i], ideas[i].exc)
        ELSE generate_single_patent(ideas[i])]

OutsEmpty == [k \in 1..DefaultMaxRetries |-> Empty]

\* a completion whose text itself begins with the words of the error prefix
OutsPrefixed == [k \in 1..DefaultMaxRetries |-> Ok(<<ErrorPrefix, "W">>)]

\* what the collaborator does for a generate_full_patent request
StoreOuts == {OutsOk, OutsFail, OutsEmpty, OutsPrefixed}

\* the idea lists handed to batch_generate_patents
StoreIdeaLists ==
    { <<Input(<<"idea", 1>>, <<>>, OutsOk, <<>>)>>,
      <<Input(<<"idea", 1>>, <<>>, OutsFail, <<>>),
        Input(<<"idea", 2>>, <<"INCOMPLETE_JSON">>, OutsOk, <<>>)>> }

\* the updates argument of update_patent
Patches == { <<>>, [status |-> "optimized"] }

NoResult == [text |-> <<>>, calls |-> 0, sleeps |-> <<>>]
NoDoc == Doc(<<>>, <<>>, <<>>, "none")

IdleThread ==
    [pc |-> "idle", op |-> "none", outs |-> <<>>, ideas |-> <<>>,
     pid |-> <<>>, updates |-> <<>>, result |-> NoResult, doc |-> NoDoc,
     batch |-> <<>>, data |-> Absent, before |-> Absent, saved |-> TRUE,
     failed |-> {}, ret |-> <<>>]

\* a thread starts an operation: the locals of the previous one are gone
Begin(t, op, pc) ==
    [IdleThread EXCEPT !.pc = pc, !.op = op]

\* the ids a caller can ask for: those it has seen, or one that is unknown
KnownIds == {patents[i].id : i \in 1..Len(patents)} \cup {<<"unknown", 0>>}

\* a record persisted by an earlier run
OldDoc == Doc(<<"patent", 0, 1>>, <<"TITLE">>, <<"W">>, "draft")

\* the store after construction: _load_patents has read the durable file
\* of an earlier run, if there is one (patent_assistant.py:29-36)
Init ==
    /\ GatewayIdle /\ JsonIdle /\ DispatchIdle /\ HeapIdle
    /\ ConstructIdle
    /\ file \in {Absent, Snapshot(<<>>), Snapshot(<<OldDoc>>)}
    /\ backup \in {Absent, Snapshot(<<>>)}
    /\ Exists(backup) => Exists(file)
    /\ patents = LoadPatents(file, <<>>)
    /\ lock = 0
    /\ now = 0
    /\ faults = 0
    /\ ops = 0
    /\ th = [t \in Threads |-> IdleThread]

\* the operations one run explores: more when a single caller uses the store
OpsBudget == IF Cardinality(DOMAIN th) = 1 THEN MaxSeqOps ELSE MaxOps

CanBegin(t) == th[t].pc = "idle" /\ ops < OpsBudget

\* --- generate_full_patent (patent_assistant.py:163-208) ---
\* lines 180-186: the prompt is built and the gateway call made
BeginGenerateFullPatent(t) ==
    /\ CanBegin(t)
    /\ \E outs \in StoreOuts :
        th' = [th EXCEPT ![t] =
                 [Begin(t, "generate_full_patent", "gfp_build")
                    EXCEPT !.outs = outs,
                           !.result = generate_content(outs, DefaultMaxRetries)]]
    /\ ops' = ops + 1
    /\ UNCHANGED <<patents, file, backup, lock, now, faults>>
    /\ UNCHANGED nonsvars

\* lines 189-201: the document is built; its id reads len(self.patents)
GfpBuild(t) ==
    /\ th[t].pc = "gfp_build"
    /\ th' = [th EXCEPT
                ![t].doc = Doc(NewPatentId(now, patents), <<"TITLE">>,
                               th[t].result.text, StatusOf(th[t].result.text)),
                ![t].pc = "lock"]
    /\ UNCHANGED <<patents, file, backup, lock, now, faults, ops>>
    /\ UNCHANGED nonsvars

\* --- batch_generate_patents (patent_assistant.py:210-291) ---
\* lines 259-284: the dispatch runs to its end
BeginBatchGeneratePatents(t) ==
    /\ CanBegin(t)
    /\ \E ideas \in StoreIdeaLists :
        th' = [th EXCEPT ![t] =
                 [Begin(t, "batch_generate_patents", "lock")
                    EXCEPT !.ideas = ideas, !.batch = BatchDocs(ideas)]]
    /\ ops' = ops + 1
    /\ UNCHANGED <<patents, file, backup, lock, now, faults>>
    /\ UNCHANGED nonsvars

\* --- update_patent, delete_patent and the reads ---
\* the operations that only take the lock and then act: their arguments
\* matter from the moment the body runs
BeginUpdatePatent(t) ==
    /\ CanBegin(t)
    /\ th' = [th EXCEPT ![t] = Begin(t, "update_patent", "lock")]
    /\ ops' = ops + 1
    /\ UNCHANGED <<patents, file, backup, lock, now, faults>>
    /\ UNCHANGED nonsvars

BeginDeletePatent(t) ==
    /\ CanBegin(t)
    /\ th' = [th EXCEPT ![t] = Begin(t, "delete_patent", "lock")]
    /\ ops' = ops + 1
    /\ UNCHANGED <<patents, file, backup, lock, now, faults>>
    /\ UNCHANGED nonsvars

BeginRead(t) ==
    /\ th[t].pc = "idle"
    /\ th' = [th EXCEPT ![t] = Begin(t, "read", "lock")]
    /\ UNCHANGED <<patents, file, backup, lock, now, faults, ops>>
    /\ UNCHANGED nonsvars

\* "with self._lock:" (patent_assistant.py:204, 287, 320, 325, 333, 344,
\* 354, 359, 378)
AcquireWithoutWaiting(t) ==
    /\ th[t].pc = "lock"
    /\ lock' = t
    /\ th' = [th EXCEPT ![t].pc = "body"]
    /\ UNCHANGED <<patents, file, backup, now, faults, ops>>
    /\ UNCHANGED nonsvars

Acquire(t) ==
    /\ th[t].pc = "lock"
    /\ lock = 0
    /\ lock' = t
    /\ th' = [th EXCEPT ![t].pc = "body"]
    /\ UNCHANGED <<patents, file, backup, now, faults, ops>>
    /\ UNCHANGED nonsvars

\* line 205: self.patents.append(patent_doc)
GfpAppendAtBuiltIndex(t) ==
    /\ th[t].pc = "body" /\ th[t].op = "generate_full_patent"
    /\ patents' = Append(SubSeq(patents, 1, th[t].doc.id[3] - 1), th[t].doc)
    /\ th' = [th EXCEPT ![t].pc = "save_data", ![t].ret = <<th[t].doc>>]
    /\ UNCHANGED <<file, backup, lock, now, faults, ops>>
    /\ UNCHANGED nonsvars

GfpAppend(t) ==
    /\ th[t].pc = "body" /\ th[t].op = "generate_full_patent"
    /\ patents' = Append(patents, th[t].doc)
    /\ th' = [th EXCEPT ![t].pc = "save_data", ![t].ret = <<th[t].doc>>]
    /\ UNCHANGED <<file, backup, lock, now, faults, ops>>
    /\ UNCHANGED nonsvars

\* line 288: self.patents.extend(...)
BgpExtend(t) ==
    /\ th[t].pc = "body" /\ th[t].op = "batch_generate_patents"
    /\ patents' = patents \o th[t].batch
    /\ th' = [th EXCEPT ![t].pc = "save_data", ![t].ret = <<th[t].batch>>]
    /\ UNCHANGED <<file, backup, lock, now, faults, ops>>
    /\ UNCHANGED nonsvars

\* lines 334-340
UpdateApplyAlwaysSaves(t) ==
    /\ th[t].pc = "body" /\ th[t].op = "update_patent"
    /\ \E pid \in KnownIds, u \in Patches :
        LET i == IndexOf(patents, pid) IN
        IF i # 0
        THEN /\ patents' = [patents EXCEPT ![i] = ApplyUpdate(@, u, now)]
             /\ th' = [th EXCEPT ![t].pc = "save_data", ![t].pid = pid,
                                 ![t].updates = u, ![t].ret = <<TRUE>>]
        ELSE /\ patents' = patents
             /\ th' = [th EXCEPT ![t].pc = "save_data", ![t].pid = pid,
                                 ![t].updates = u, ![t].ret = <<FALSE>>]
    /\ UNCHANGED <<file, backup, lock, now, faults, ops>>
    /\ UNCHANGED nonsvars

UpdateApply(t) ==
    /\ th[t].pc = "body" /\ th[t].op = "update_patent"
    /\ \E pid \in KnownIds, u \in Patches :
        LET i == IndexOf(patents, pid) IN
        IF i # 0
        THEN /\ patents' = [patents EXCEPT ![i] = ApplyUpdate(@, u, now)]
             /\ th' = [th EXCEPT ![t].pc = "save_data", ![t].pid = pid,
                                 ![t].updates = u, ![t].ret = <<TRUE>>]
        ELSE /\ patents' = patents
             /\ th' = [th EXCEPT ![t].pc = "unlock", ![t].pid = pid,
                                 ![t].updates = u, ![t].ret = <<FALSE>>]
    /\ UNCHANGED <<file, backup, lock, now, faults, ops>>
    /\ UNCHANGED nonsvars

\* lines 345-350
DeleteApply(t) ==
    /\ th[t].pc = "body" /\ th[t].op = "delete_patent"
    /\ \E pid \in KnownIds :
        LET i == IndexOf(patents, pid) IN
        IF i # 0
        THEN /\ patents' = RemoveAt(patents, i)
             /\ th' = [th EXCEPT ![t].pc = "save_data", ![t].pid = pid,
                                 ![t].ret = <<TRUE>>]
        ELSE /\ patents' = patents
             /\ th' = [th EXCEPT ![t].pc = "unlock", ![t].pid = pid,
                                 ![t].ret = <<FALSE>>]
    /\ UNCHANGED <<file, backup, lock, now, faults, ops>>
    /\ UNCHANGED nonsvars

\* lines 321, 326-328, 355, 360-370, 379-388: one of the read operations
Read(t) ==
    /\ th[t].pc = "body" /\ th[t].op = "read"
    /\ \E rop \in ReadOps, pid \in KnownIds :
        /\ (rop # "get_patent_by_id") => pid = <<"unknown", 0>>
        /\ th' = [th EXCEPT ![t].pc = "unlock", ![t].pid = pid,
                            ![t].ret = <<rop, ReadValue(rop, patents, pid)>>]
    /\ UNCHANGED <<patents, file, backup, lock, now, faults, ops>>
    /\ UNCHANGED nonsvars

\* --- optimize_patent (patent_assistant.py:293-316) ---
\* what the collaborator does for an optimize_patent request
OptimizeOuts == {OutsOk, OutsFail}

\* lines 310-316: the prompt is built, generate_content is called once and
\* its text is the return value
OptimizePatentStoresResult(t) ==
    /\ th[t].pc = "idle"
    /\ \E outs \in OptimizeOuts :
        LET r == generate_content(outs, DefaultMaxRetries) IN
        /\ th' = [th EXCEPT ![t] =
                    [Begin(t, "optimize_patent", "optimized")
                       EXCEPT !.outs = outs, !.result = r, !.ret = <<r.text>>]]
        /\ patents' = Append(patents, Doc(<<"optimized">>, <<"TITLE">>,
                                          r.text, "optimized"))
    /\ UNCHANGED <<file, backup, lock, now, faults, ops>>
    /\ UNCHANGED nonsvars

OptimizePatent(t) ==
    /\ th[t].pc = "idle"
    /\ \E outs \in OptimizeOuts :
        LET r == generate_content(outs, DefaultMaxRetries) IN
        th' = [th EXCEPT ![t] =
                 [Begin(t, "optimize_patent", "optimized")
                    EXCEPT !.outs = outs, !.result = r, !.ret = <<r.text>>]]
    /\ UNCHANGED <<patents, file, backup, lock, now, faults, ops>>
    /\ UNCHANGED nonsvars

\* the caller has the text
OptimizeReturn(t) ==
    /\ th[t].pc = "optimized"
    /\ th' = [th EXCEPT ![t] = IdleThread]
    /\ UNCHANGED <<patents, file, backup, lock, now, faults, ops>>
    /\ UNCHANGED nonsvars

\* the with block ends: the lock is released and the operation returns
ReleaseKeepsLock(t) ==
    /\ th[t].pc = "unlock"
    /\ th' = [th EXCEPT ![t] = IdleThread]
    /\ UNCHANGED <<patents, file, backup, lock, now, faults, ops>>
    /\ UNCHANGED nonsvars

Release(t) ==
    /\ th[t].pc = "unlock"
    /\ lock' = 0
    /\ th' = [th EXCEPT ![t] = IdleThread]
    /\ UNCHANGED <<patents, file, backup, now, faults, ops>>
    /\ UNCHANGED nonsvars


\* --- _save_patents (patent_assistant.py:52-94), called with the lock held ---
CanFail == faults < MaxFaults

\* lines 55-65: the data dict is built and the two exists() tests are made;
\* before remembers what the file held when the save began, failed the
\* steps of this save that raised
SaveData(t) ==
    /\ th[t].pc = "save_data"
    /\ th' = [th EXCEPT ![t].data = Snapshot(patents),
                        ![t].before = file,
                        ![t].failed = {},
                        ![t].saved = FALSE,
                        ![t].pc = IF ~Exists(file) THEN "save_open"
                                  ELSE IF Exists(backup) THEN "save_remove"
                                  ELSE "save_copy"]
    /\ UNCHANGED <<patents, file, backup, lock, now, faults, ops>>
    /\ UNCHANGED nonsvars

\* line 67: os.remove(backup_file)
SaveRemoveBackup(t) ==
    /\ th[t].pc = "save_remove"
    /\ backup' = Absent
    /\ th' = [th EXCEPT ![t].pc = "save_copy"]
    /\ UNCHANGED <<patents, file, lock, now, faults, ops>>
    /\ UNCHANGED nonsvars

\* lines 68-69: os.remove raises OSError, which is ignored
SaveRemoveBackupFails(t) ==
    /\ th[t].pc = "save_remove" /\ CanFail
    /\ faults' = faults + 1
    /\ th' = [th EXCEPT ![t].pc = "save_copy",
                        ![t].failed = @ \cup {"remove"}]
    /\ UNCHANGED <<patents, file, backup, lock, now, ops>>
    /\ UNCHANGED nonsvars

SaveCopyBackupSkipped(t) ==
    /\ th[t].pc = "save_copy"
    /\ th' = [th EXCEPT ![t].pc = "save_open"]
    /\ UNCHANGED <<patents, file, backup, lock, now, faults, ops>>
    /\ UNCHANGED nonsvars

\* line 74: shutil.copy2(self.data_file, backup_file)
SaveCopyBackup(t) ==
    /\ th[t].pc = "save_copy"
    /\ backup' = file
    /\ th' = [th EXCEPT ![t].pc = "save_open"]
    /\ UNCHANGED <<patents, file, lock, now, faults, ops>>
    /\ UNCHANGED nonsvars

\* lines 75-76: copy2 raises; the backup is untouched or half-written
SaveCopyBackupFails(t) ==
    /\ th[t].pc = "save_copy" /\ CanFail
    /\ faults' = faults + 1
    /\ backup' \in {backup, Partial}
    /\ th' = [th EXCEPT ![t].pc = "save_open",
                        ![t].failed = @ \cup {"copy"}]
    /\ UNCHANGED <<patents, file, lock, now, ops>>
    /\ UNCHANGED nonsvars

\* line 79: open(self.data_file, 'w') truncates the file
SaveOpen(t) ==
    /\ th[t].pc = "save_open"
    /\ file' = Partial
    /\ th' = [th EXCEPT ![t].pc = "save_dump"]
    /\ UNCHANGED <<patents, backup, lock, now, faults, ops>>
    /\ UNCHANGED nonsvars

\* line 79 raises: the file is as it was
SaveOpenFails(t) ==
    /\ th[t].pc = "save_open" /\ CanFail
    /\ faults' = faults + 1
    /\ th' = [th EXCEPT ![t].pc = "save_restore",
                        ![t].failed = @ \cup {"open"}]
    /\ UNCHANGED <<patents, file, backup, lock, now, ops>>
    /\ UNCHANGED nonsvars

\* lines 80-82: json.dump writes the snapshot and the file is closed
SaveDump(t) ==
    /\ th[t].pc = "save_dump"
    /\ file' = th[t].data
    /\ th' = [th EXCEPT ![t].pc = "unlock", ![t].saved = TRUE]
    /\ UNCHANGED <<patents, backup, lock, now, faults, ops>>
    /\ UNCHANGED nonsvars

\* line 80 raises: the file is left half-written
SaveDumpFails(t) ==
    /\ th[t].pc = "save_dump" /\ CanFail
    /\ faults' = faults + 1
    /\ th' = [th EXCEPT ![t].pc = "save_restore",
                        ![t].failed = @ \cup {"dump"}]
    /\ UNCHANGED <<patents, file, backup, lock, now, ops>>
    /\ UNCHANGED nonsvars

SaveRestoreRollsBackMemory(t) ==
    /\ th[t].pc = "save_restore"
    /\ file' = IF Exists(backup) THEN backup ELSE file
    /\ patents' = LoadPatents(th[t].before, <<>>)
    /\ th' = [th EXCEPT ![t].pc = "unlock"]
    /\ UNCHANGED <<backup, lock, now, faults, ops>>
    /\ UNCHANGED nonsvars

\* lines 84-92: the handler copies the backup, if there is one, over the file
SaveRestore(t) ==
    /\ th[t].pc = "save_restore"
    /\ file' = IF Exists(backup) THEN backup ELSE file
    /\ th' = [th EXCEPT ![t].pc = "unlock"]
    /\ UNCHANGED <<patents, backup, lock, now, faults, ops>>
    /\ UNCHANGED nonsvars

\* lines 93-94: the restoring copy2 raises; the file is untouched or
\* half-written
SaveRestoreFails(t) ==
    /\ th[t].pc = "save_restore" /\ Exists(backup) /\ CanFail
    /\ faults' = faults + 1
    /\ file' \in {file, Partial}
    /\ th' = [th EXCEPT ![t].pc = "unlock",
                        ![t].failed = @ \cup {"restore"}]
    /\ UNCHANGED <<patents, backup, lock, now, ops>>
    /\ UNCHANGED nonsvars

\* --- the refresh button: assistant._load_patents() (app.py:656-660,
\*     patent_assistant.py:38-50), called without the lock ---
BeginReload(t) ==
    /\ CanBegin(t)
    /\ th' = [th EXCEPT ![t] = Begin(t, "reload", "load_exists")]
    /\ ops' = ops + 1
    /\ UNCHANGED <<patents, file, backup, lock, now, faults>>
    /\ UNCHANGED nonsvars

\* line 41: os.path.exists(self.data_file)
LoadExists(t) ==
    /\ th[t].pc = "load_exists"
    /\ th' = [th EXCEPT ![t] = IF Exists(file)
                                THEN [@ EXCEPT !.pc = "load_read"]
                                ELSE IdleThread]
    /\ UNCHANGED <<patents, file, backup, lock, now, faults, ops>>
    /\ UNCHANGED nonsvars

\* lines 42-50: json.load; a file that does not parse empties the collection
LoadRead(t) ==
    /\ th[t].pc = "load_read"
    /\ patents' = LoadPatents(file, patents)
    /\ th' = [th EXCEPT ![t] = IdleThread]
    /\ UNCHANGED <<file, backup, lock, now, faults, ops>>
    /\ UNCHANGED nonsvars

\* the process stops at any point and a new one constructs the store from
\* the durable file: __init__ and _load_patents (patent_assistant.py:29-50)
Restart ==
    /\ ops < OpsBudget
    /\ ops' = ops + 1
    /\ patents' = LoadPatents(file, <<>>)
    /\ lock' = 0
    /\ th' = [t \in DOMAIN th |-> [IdleThread EXCEPT !.op = "__init__"]]
    /\ UNCHANGED <<file, backup, now, faults>>
    /\ UNCHANGED nonsvars

\* the clock advances; only generate_full_patent reads it (line 195)
Tick ==
    /\ now < MaxClock
    /\ \E t \in DOMAIN th : th[t].pc = "gfp_build"
    /\ now' = now + 1
    /\ UNCHANGED <<patents, file, backup, lock, faults, ops, th>>
    /\ UNCHANGED nonsvars

Next ==
    \/ \E t \in DOMAIN th :
        \/ BeginGenerateFullPatent(t)
        \/ GfpBuild(t)
        \/ BeginBatchGeneratePatents(t)
        \/ BeginUpdatePatent(t)
        \/ BeginDeletePatent(t)
        \/ BeginRead(t)
        \/ Acquire(t)
        \/ GfpAppend(t)
        \/ BgpExtend(t)
        \/ UpdateApply(t)
        \/ DeleteApply(t)
        \/ Read(t)
        \/ Release(t)
        \/ SaveData(t)
        \/ SaveRemoveBackup(t)
        \/ SaveRemoveBackupFails(t)
        \/ SaveCopyBackup(t)
        \/ SaveCopyBackupFails(t)
        \/ SaveOpen(t)
        \/ SaveOpenFails(t)
        \/ SaveDump(t)
        \/ SaveDumpFails(t)
        \/ SaveRestore(t)
        \/ SaveRestoreFails(t)
        \/ BeginReload(t)
        \/ LoadExists(t)
        \/ LoadRead(t)
        \/ OptimizePatent(t)
        \/ OptimizeReturn(t)
    \/ Restart
    \/ Tick

Spec == Init /\ [][Next]_vars

\* the same store used by one caller at a time
SeqInit ==
    /\ GatewayIdle /\ JsonIdle /\ DispatchIdle /\ HeapIdle
    /\ ConstructIdle
    /\ file \in {Absent, Snapshot(<<>>), Snapshot(<<OldDoc>>)}
    /\ backup \in {Absent, Snapshot(<<>>)}
    /\ Exists(backup) => Exists(file)
    /\ patents = LoadPatents(file, <<>>)
    /\ lock = 0
    /\ now = 0
    /\ faults = 0
    /\ ops = 0
    /\ th = [t \in {1} |-> IdleThread]

SpecSeq == SeqInit /\ [][Next]_vars



\* the threads that called generate_full_patent while the collaborator
\* answered its first call with empty or missing output
EmptyOutputCallers ==
    {t \in Threads : /\ th[t].op = "generate_full_patent"
                     /\ th[t].outs[1].kind = "empty"}

\* C8: when the collaborator call succeeds with empty or missing output,
\* generate_content returns the fixed no-usable-content text after that one
\* call, without sleeping or calling again; the text does not match the
\* error-prefix check, so the document generate_full_patent builds has status
\* draft and carries that text, and the append puts exactly that document at
\* the end of the collection.
C8_EmptyOutputStoredAsDraft ==
    /\ [](\A t \in EmptyOutputCallers :
            /\ th[t].result =
                  [text |-> NoContentText, calls |-> 1, sleeps |-> <<>>]
            /\ ~StartsWithErrorPrefix(th[t].result.text)
            /\ th[t].pc # "gfp_build" =>
                  /\ th[t].doc.status = "draft"
                  /\ th[t].doc.content = NoContentText)
    /\ [][\A t \in EmptyOutputCallers :
            (th[t].pc = "body" /\ th'[t].pc = "save_data") =>
                /\ patents' = Append(patents, th[t].doc)
                /\ patents'[Len(patents')].status = "draft"
                /\ patents'[Len(patents')].content = NoContentText]_vars

\* the document built from an empty output has been saved to the file
C8_Witness ==
    \E t \in EmptyOutputCallers :
        /\ th[t].pc = "unlock" /\ th[t].saved
        /\ th[t].result.calls = 1
        /\ th[t].doc.status = "draft"
        /\ Len(patents) > 0 /\ patents[Len(patents)] = th[t].doc
        /\ file = Snapshot(patents)

\* C10: a thread whose next step reads or writes the in-memory collection,
\* the durable file or its backup, in any store operation (reload included),
\* holds the lock, and no two threads are at such a step together.
C10_EveryAccessHoldsLock ==
    LET Accessing ==
            {t \in Threads :
                th[t].pc \in {"gfp_build", "body", "save_data", "save_remove",
                              "save_copy", "save_open", "save_dump",
                              "save_restore", "load_exists", "load_read"}}
    IN  /\ \A t \in Accessing : lock = t
        /\ Cardinality(Accessing) <= 1



(***************************************************************************)
(* What get_patents and get_patent_by_id hand out                          *)
(* (patent_assistant.py:318-329).  A value of Python is a reference: the   *)
(* collection is a list of addresses of record dicts, and the features     *)
(* field of a record is the address of a list.                             *)
(***************************************************************************)
\* the record dict at address a with its features list read through
DeepRecord(recs, lists, a) ==
    [id |-> recs[a].id, status |-> recs[a].status,
     features |-> lists[recs[a].features]]

\* the content of a list of record addresses: what json.dump would persist
\* (patent_assistant.py:56, 80)
DeepValue(recs, lists, refs) ==
    [i \in 1..Len(refs) |-> DeepRecord(recs, lists, refs[i])]

\* list.copy() (patent_assistant.py:321): a new list of the same addresses
ListCopy(refs) == [i \in 1..Len(refs) |-> refs[i]]

\* dict.copy() (patent_assistant.py:328): a new dict with the same field
\* values, the address of the features list among them
DictCopy(recs, a) == Append(recs, recs[a])

\* the address of the first record with this id, 0 when there is none
\* (patent_assistant.py:326-327)
FirstWithId(recs, refs, pid) ==
    IF \E i \in 1..Len(refs) : recs[refs[i]].id = pid
    THEN refs[CHOOSE i \in 1..Len(refs) :
                /\ recs[refs[i]].id = pid
                /\ \A k \in 1..(i - 1) : recs[refs[k]].id # pid]
    ELSE 0

NothingHeld == [list |-> <<>>, rec |-> 0, got |-> "none"]

\* the record addresses the caller can reach from what it holds
Reachable ==
    {held.list[i] : i \in 1..Len(held.list)} \cup ({held.rec} \ {0})

\* a store holding n records, each with its own features list
HeapInit ==
    /\ GatewayIdle /\ JsonIdle /\ DispatchIdle /\ StoreIdle /\ ConstructIdle
    /\ \E n \in 0..MaxHeapDocs :
        /\ hrecs = [a \in 1..n |->
                       [id |-> <<"patent", a>>, status |-> "draft",
                        features |-> a]]
        /\ hlists = [a \in 1..n |-> <<"FEATURE">>]
        /\ srefs = [a \in 1..n |-> a]
    /\ held = NothingHeld
    /\ edits = 0
    /\ deep0 = DeepValue(hrecs, hlists, srefs)

CanCopy == Len(hrecs) < MaxHeapDocs + MaxCopies

\* get_patents (patent_assistant.py:318-321)
GetPatents ==
    /\ held' = [held EXCEPT !.list = ListCopy(srefs), !.got = "get_patents"]
    /\ UNCHANGED <<hrecs, hlists, srefs, edits, deep0>>
    /\ UNCHANGED nonhvars

\* get_patent_by_id (patent_assistant.py:323-329)
GetPatentById ==
    /\ CanCopy
    /\ \E pid \in {hrecs[srefs[i]].id : i \in 1..Len(srefs)}
                    \cup {<<"unknown", 0>>} :
        LET a == FirstWithId(hrecs, srefs, pid) IN
        IF a # 0
        THEN /\ hrecs' = DictCopy(hrecs, a)
             /\ held' = [held EXCEPT !.rec = Len(hrecs) + 1,
                                     !.got = "get_patent_by_id"]
        ELSE /\ hrecs' = hrecs
             /\ held' = [held EXCEPT !.rec = 0, !.got = "get_patent_by_id"]
    /\ UNCHANGED <<hlists, srefs, edits, deep0>>
    /\ UNCHANGED nonhvars

\* the caller removes the first element of the list it was given
CallerEditsList ==
    /\ edits < MaxEdits /\ held.list # <<>>
    /\ held' = [held EXCEPT !.list = Tail(@)]
    /\ edits' = edits + 1
    /\ UNCHANGED <<hrecs, hlists, srefs, deep0>>
    /\ UNCHANGED nonhvars

\* the caller assigns a field of a record it was given
CallerEditsRecord ==
    /\ edits < MaxEdits
    /\ \E a \in Reachable :
        hrecs' = [hrecs EXCEPT ![a].status = "edited"]
    /\ edits' = edits + 1
    /\ UNCHANGED <<hlists, srefs, held, deep0>>
    /\ UNCHANGED nonhvars

\* the caller appends to the features sequence of a record it was given
CallerEditsFeatures ==
    /\ edits < MaxEdits
    /\ \E a \in Reachable :
        hlists' = [hlists EXCEPT ![hrecs[a].features] = Append(@, "EDITED")]
    /\ edits' = edits + 1
    /\ UNCHANGED <<hrecs, srefs, held, deep0>>
    /\ UNCHANGED nonhvars

HeapNext ==
    \/ GetPatents
    \/ GetPatentById
    \/ CallerEditsList
    \/ CallerEditsRecord
    \/ CallerEditsFeatures

SpecHeap == HeapInit /\ [][HeapNext]_vars

\* C11: whatever the caller does to the list get_patents returned, to a
\* record it got from get_patents or get_patent_by_id, or to the features
\* sequence of such a record, the content of the collection of the store,
\* which is what the next snapshot write persists, stays as it was.
C11_CallerEditsLeaveStoreUnchanged ==
    DeepValue(hrecs, hlists, srefs) = deep0



(***************************************************************************)
(* The write cycle of one caller (patent_assistant.py:52-94)               *)
(***************************************************************************)
\* _save_patents has run in the operation of thread t and has returned
Wrote(t) == th[t].pc = "unlock" /\ th[t].data.kind = "snapshot"

\* ... and line 82 was reached: the new snapshot is in the primary file
WriteSucceeded(t) == Wrote(t) /\ th[t].saved

\* ... or open or json.dump raised
WriteFailed(t) == Wrote(t) /\ ~th[t].saved

\* C12: after a mutation whose file write succeeded the primary file is a
\* snapshot of the whole current in-memory collection, record for record,
\* and its total_count is the number of records in its patents field.
C12_SuccessfulWriteHoldsWholeCollection ==
    \A t \in DOMAIN th :
        WriteSucceeded(t) =>
            /\ file.kind = "snapshot"
            /\ Len(file.patents) = Len(patents)
            /\ \A i \in 1..Len(patents) :
                  file.patents[i] = JsonDumpDoc(patents[i])
            /\ file.total_count = Len(file.patents)

\* the third mutation in a row, a delete, has been written
C12_Witness ==
    /\ WriteSucceeded(1) /\ th[1].op = "delete_patent"
    /\ ops >= 3 /\ Len(patents) >= 1
    /\ file.total_count = Len(patents)

C14_FailedWriteRestoresPrimary ==
    \A t \in DOMAIN th :
        (WriteFailed(t) /\ Exists(th[t].before) /\ Exists(backup)
            /\ "restore" \notin th[t].failed) =>
            file = th[t].before


\* the positions inside _save_patents after the data dict is built
SavePcs ==
    {"save_remove", "save_copy", "save_open", "save_dump", "save_restore"}

\* C15: when the process stops at any step of a snapshot write on a store
\* whose file held records, the store constructed afterwards from the file
\* holds the collection the file held before the write or the collection
\* being written, never an empty or partial one.
C15_CrashKeepsPersistedRecords ==
    [][\A t \in DOMAIN th :
          (Restart /\ th[t].pc \in SavePcs
              /\ th[t].before.kind = "snapshot"
              /\ Len(th[t].before.patents) > 0) =>
              patents' \in {LoadPatents(th[t].before, <<>>),
                            LoadPatents(th[t].data, <<>>)}]_vars


\* the collection holds the mutation the operation of thread t made
ReflectsMutation(t) ==
    /\ Snapshot(patents) = th[t].data
    /\ th[t].op = "generate_full_patent" =>
          Len(patents) > 0 /\ patents[Len(patents)] = th[t].doc
    /\ th[t].op = "batch_generate_patents" =>
          /\ Len(patents) >= Len(th[t].batch)
          /\ SubSeq(patents, Len(patents) - Len(th[t].batch) + 1,
                    Len(patents)) = th[t].batch
    /\ th[t].op = "update_patent" =>
          /\ IndexOf(patents, th[t].pid) # 0
          /\ LET d == patents[IndexOf(patents, th[t].pid)] IN
                /\ d.updated_at # <<>>
                /\ \A f \in DOMAIN th[t].updates : d[f] = th[t].updates[f]
    /\ th[t].op = "delete_patent" => th[t].ret = <<TRUE>>

\* C16: when the file write of a mutation failed, the in-memory collection
\* holds the mutation when the operation returns and is what get_patents
\* returns; no step of the save, of its failure handling or of the return
\* changes the collection, and a later write that succeeds puts the whole
\* in-memory collection into the file.
C16_FailedWriteKeepsMemory ==
    /\ [](\A t \in DOMAIN th :
            WriteFailed(t) =>
                /\ ReflectsMutation(t)
                /\ ReadValue("get_patents", patents, <<>>) = patents)
    /\ [][\A t \in DOMAIN th :
            ((th[t].pc \in SavePcs \cup {"save_data", "unlock"})
                /\ th'[t].pc \in SavePcs \cup {"unlock", "idle"}
                /\ ~Restart) =>
                patents' = patents]_vars
    /\ [](\A t \in DOMAIN th :
            WriteSucceeded(t) => file = Snapshot(patents))

\* the write of the first record failed; the write of the second succeeded
\* and the file holds both
C16_Witness ==
    /\ WriteSucceeded(1) /\ th[1].op = "generate_full_patent"
    /\ th[1].failed = {} /\ faults >= 1
    /\ th[1].before.kind # "snapshot"
    /\ Len(patents) = 2
    /\ patents[1].content = NoContentText
    /\ patents[2] = th[1].doc
    /\ file = Snapshot(patents)


\* C17: the boolean update_patent and delete_patent return tells the caller
\* whether the mutation was persisted: it is true when the file write
\* succeeded and false when it failed.
C17_ReturnValueReportsWriteFailure ==
    \A t \in DOMAIN th :
        (Wrote(t) /\ th[t].op \in {"update_patent", "delete_patent"}) =>
            th[t].ret = <<th[t].saved>>



(***************************************************************************)
(* Construction of a store over a durable file of any content              *)
(* (patent_assistant.py:19-50)                                             *)
(***************************************************************************)
\* the records a file can hold
FileDocs ==
    {[Doc(<<"patent", n>>, <<"TITLE">>, <<"W">>, st)
        EXCEPT !.updated_at = u] :
        n \in 1..2, st \in {"draft", "error"}, u \in {<<>>, <<"TIME">>}}

FileDocLists ==
    UNION {[1..n -> FileDocs] : n \in 0..MaxFileDocs}

\* no file, a file that is not JSON, JSON of another shape, a snapshot
ConstructFiles ==
    {Absent, Partial} \cup {WrongShape(k) : k \in WrongShapes}
        \cup {Snapshot(ps) : ps \in FileDocLists}

\* line 32 has run: self.patents = []
ConstructInit ==
    /\ GatewayIdle /\ JsonIdle /\ DispatchIdle /\ StoreIdle /\ HeapIdle
    /\ cfile \in ConstructFiles
    /\ cstore = PyList(<<>>)
    /\ cpc = "new"

\* line 36: self._load_patents(); every exception is caught in line 48
Construct ==
    /\ cpc = "new"
    /\ cstore' = LoadValue(cfile, cstore)
    /\ cpc' = "ready"
    /\ UNCHANGED cfile
    /\ UNCHANGED noncvars

ConstructNext == Construct

SpecConstruct == ConstructInit /\ [][ConstructNext]_vars

\* C18: a constructed store holds the records of the patents field when the
\* file is a valid snapshot and an empty collection when the file is
\* missing, is not JSON, or is JSON of another shape.
C18_ConstructedFromAnyFile ==
    cpc = "ready" =>
        IF cfile.kind = "snapshot"
        THEN cstore =
               PyList([i \in 1..Len(cfile.patents) |->
                          JsonLoadDoc(cfile.patents[i])])
        ELSE cstore = PyList(<<>>)


\* C19: when the records of the collection have been written by a mutation
\* whose write succeeded, a store constructed from the file holds the same
\* records, field for field and in the same order, and the total_count of
\* the file is their number.
C19_RoundTrip ==
    [][\A t \in DOMAIN th :
          (Restart /\ WriteSucceeded(t)) =>
              /\ patents' = patents
              /\ file.total_count = Len(patents')
              /\ \A i \in 1..Len(patents) :
                    JsonLoadDoc(file.patents[i]) = patents[i]]_vars

\* a store constructed from a file of two records, one of them updated
C19_Witness ==
    /\ th[1].pc = "idle" /\ th[1].op = "__init__"
    /\ Len(patents) = 2
    /\ \E i \in 1..2 : patents[i].updated_at # <<>>
    /\ file = Snapshot(patents)
    /\ file.total_count = 2


\* C20: once delete_patent(id) has returned true for an id of the store, no
\* record with that id remains, so that delete_patent(id) called again
\* right after finds none and returns false.
C20_DeleteTwiceTrueThenFalse ==
    \A t \in DOMAIN th :
        (th[t].op = "delete_patent" /\ th[t].ret = <<TRUE>>
            /\ th[t].pc \in SavePcs \cup {"save_data", "unlock"}) =>
            IndexOf(patents, th[t].pid) = 0


\* C21: update_patent(id, {}) on an id of the store returns true, sets
\* updated_at on the record it addresses, leaves the other fields of that
\* record and all other records as they were, and goes on to the snapshot
\* write.
C21_EmptyPatchSetsOnlyTimestamp ==
    [][\A t \in DOMAIN th :
          (th[t].pc = "body" /\ th[t].op = "update_patent"
              /\ th'[t].op = "update_patent" /\ th'[t].pc # "body"
              /\ DOMAIN th'[t].updates = {}
              /\ IndexOf(patents, th'[t].pid) # 0) =>
              LET i == IndexOf(patents, th'[t].pid) IN
              /\ th'[t].ret = <<TRUE>>
              /\ th'[t].pc = "save_data"
              /\ Len(patents') = Len(patents)
              /\ patents'[i].updated_at # <<>>
              /\ \A f \in (DOMAIN patents[i]) \ {"updated_at"} :
                    patents'[i][f] = patents[i][f]
              /\ \A j \in (1..Len(patents)) \ {i} :
                    patents'[j] = patents[j]]_vars

\* an empty patch has been applied to one of two records and is being saved
C21_Witness ==
    /\ th[1].op = "update_patent" /\ th[1].pc = "save_data"
    /\ DOMAIN th[1].updates = {}
    /\ th[1].ret = <<TRUE>>
    /\ Len(patents) = 2
    /\ patents[IndexOf(patents, th[1].pid)].updated_at # <<>>
    /\ \E j \in 1..2 : patents[j].updated_at = <<>>


\* the value a get_statistics call of thread t is about to return
StatisticsOf(t) == th[t].ret[2]

ReturnsStatistics(t) ==
    /\ th[t].op = "read" /\ th[t].pc = "unlock"
    /\ th[t].ret[1] = "get_statistics"

\* C22: get_statistics returns the number of records as total, the numbers
\* of records with status draft and with status error as the two counts
\* (so their sum is at most total), and draft / total * 100 as the success
\* rate, which is 0 for an empty collection with no division by zero.
C22_StatisticsCountRecords ==
    \A t \in DOMAIN th :
        ReturnsStatistics(t) =>
            LET st == StatisticsOf(t)
                drafts == {i \in 1..Len(patents) : patents[i].status = "draft"}
                errors == {i \in 1..Len(patents) : patents[i].status = "error"}
            IN
            /\ st.total_patents = Len(patents)
            /\ st.draft_patents = Cardinality(drafts)
            /\ st.error_patents = Cardinality(errors)
            /\ st.draft_patents + st.error_patents <= st.total_patents
            /\ st.success_rate[2] # 0
            /\ IF Len(patents) = 0
               THEN st.success_rate = <<0, 1>>
               ELSE st.success_rate[1] * Len(patents)
                        = Cardinality(drafts) * 100 * st.success_rate[2]

\* statistics over a store with a draft, an error and an optimized record
C22_Witness ==
    /\ ReturnsStatistics(1)
    /\ StatisticsOf(1).total_patents = 3
    /\ StatisticsOf(1).draft_patents = 1
    /\ StatisticsOf(1).error_patents = 1


\* the records generate_full_patent created: their ids have the form
\* patent_<second>_<sequence> (batch documents are patent_<n>)
IsFullPatentId(id) == Len(id) = 3

\* C23: any two documents created by generate_full_patent on the same
\* store have different ids, also when the two calls run on different
\* threads within the same second.
C23_FullPatentIdsDiffer ==
    \A i, j \in 1..Len(patents) :
        (i # j /\ IsFullPatentId(patents[i].id)
               /\ IsFullPatentId(patents[j].id)) =>
            patents[i].id # patents[j].id


\* the gateway signals failure when the last create() call it made raised
\* (gemini_client.py:86-98); a call that returned, with or without content,
\* is a completion
GatewayFailed(outs) ==
    LET n == generate_content(outs, DefaultMaxRetries).calls IN
    n = 0 \/ outs[n].kind = "raise"

\* C25: generate_full_patent appends exactly one document per call; the
\* document has status error if and only if the gateway signalled failure
\* for the call, and status draft otherwise.
C25_StatusErrorIffGatewayFailed ==
    [][\A t \in DOMAIN th :
          (th[t].op = "generate_full_patent" /\ th[t].pc = "body"
              /\ th'[t].op = "generate_full_patent"
              /\ th'[t].pc # "body") =>
              /\ patents' = Append(patents, th[t].doc)
              /\ th'[t].pc = "save_data"
              /\ th[t].doc.status =
                    (IF GatewayFailed(th[t].outs) THEN "error" ELSE "draft")]_vars


\* the generation of a document could not produce a usable artifact: the
\* idea was an error idea, the unit raised, or the gateway signalled failure
GenerationFailed(idea) ==
    \/ HasError(idea)
    \/ UnitRaises("batch_generate_patents", idea)
    \/ GatewayFailed(idea.outs)

BatchReturned == dkind = "batch_generate_patents" /\ dpc = "returned"

\* C26: in batch_generate_patents every document whose generation could
\* not produce a usable artifact, also one whose gateway call returned an
\* error, has status error; a document has status draft only if its
\* completion succeeded.
C26_FailedGenerationHasStatusError ==
    BatchReturned =>
        \A i \in 1..Len(inputs) :
            /\ GenerationFailed(inputs[i]) => dret[i].status = "error"
            /\ dret[i].status = "draft" => ~GatewayFailed(inputs[i].outs)

\* the generate_content calls the units of the batch have made
RECURSIVE GatewayCallsStarted(_)
GatewayCallsStarted(n) ==
    IF n = 0 THEN 0 ELSE fresult[n].gcalls + GatewayCallsStarted(n - 1)

NonErrorIdeas == {i \in 1..Len(inputs) : ~HasError(inputs[i])}

NoUnitRaised == \A i \in 1..Len(inputs) : ~fresult[i].raised

SucceededWithCompleteJson(item) ==
    /\ ~UnitRaises("batch_generate_json", item)
    /\ ~GatewayFailed(item.outs)
    /\ LET text == generate_content(item.outs, DefaultMaxRetries).text
           json_content == CleanFences(ExtractFenced(text))
       IN /\ JsonParses(json_content)
          /\ {"title", "features"} \subseteq JsonValue(Strip(json_content)[1]).keys

IdeasReturned == dkind = "batch_generate_json" /\ dpc = "ideas"

IdeasWithoutError == {i \in 1..Len(patent_ideas) : ~HasError(patent_ideas[i])}

\* C24: generate_patent_ideas(count) returns exactly count ideas, the i-th
\* with id idea_<i>; a result that is an error or lacks title or features
\* is returned at its position as an idea with a non-empty error field, so
\* the ideas without an error field number the requests that succeeded with
\* complete JSON.
C24_OneIdeaPerRequest ==
    IdeasReturned =>
        /\ Len(patent_ideas) = Len(inputs)
        /\ \A i \in 1..Len(inputs) :
              /\ patent_ideas[i].id = <<"idea", i>>
              /\ HasError(patent_ideas[i])
                    <=> ~SucceededWithCompleteJson(inputs[i])
        /\ Cardinality(IdeasWithoutError) =
              Cardinality({i \in 1..Len(inputs) :
                              SucceededWithCompleteJson(inputs[i])})

\* three requests of which the second failed: ideas 1 and 3 are good
C24_Witness ==
    /\ IdeasReturned /\ Len(inputs) = 3
    /\ GatewayFailed(inputs[2].outs)
    /\ IdeasWithoutError = {1, 3}
    /\ patent_ideas[2].id = <<"idea", 2>>


\* the steps of an operation that run inside its "with self._lock" block
LockedPcs == {"body", "save_data", "unlock"} \cup SavePcs

\* thread t is inside the locked block of batch_generate_patents
\* (patent_assistant.py:287-289)
InBatchBlock(t) ==
    th[t].op = "batch_generate_patents" /\ th[t].pc \in LockedPcs

\* thread t is inside the locked block of a read such as get_patents
\* (patent_assistant.py:320-321)
InReadBlock(t) == th[t].op = "read" /\ th[t].pc \in LockedPcs

\* C28: batch_generate_patents adds its whole result to the collection in
\* one locked step, after the existing records and in idea order, and goes
\* on to one snapshot write; a get_patents on another thread never runs
\* while a batch is inside its locked block, so it sees none or all of the
\* batch.
C28_BatchAddedInOneLockedStep ==
    /\ [](\A t, r \in DOMAIN th :
            (t # r /\ InBatchBlock(t)) => ~InReadBlock(r))
    /\ [](\A t \in DOMAIN th : InBatchBlock(t) => lock = t)
    /\ [][\A t \in DOMAIN th :
            (th[t].op = "batch_generate_patents" /\ th[t].pc = "body"
                /\ th'[t].op = "batch_generate_patents"
                /\ th'[t].pc # "body") =>
                /\ lock = t /\ lock' = t
                /\ th'[t].pc = "save_data"
                /\ Len(th[t].batch) = Len(th[t].ideas)
                /\ Len(patents') = Len(patents) + Len(th[t].ideas)
                /\ SubSeq(patents', 1, Len(patents)) = patents
                /\ \A i \in 1..Len(th[t].ideas) :
                      /\ patents'[Len(patents) + i] = th[t].batch[i]
                      /\ patents'[Len(patents) + i].title =
                            th[t].ideas[i].title]_vars

\* a batch of two documents has been added after an existing record and
\* is being written while a read on the other thread waits for the lock
C28_Witness ==
    /\ th[1].op = "batch_generate_patents" /\ th[1].pc = "save_data"
    /\ Len(th[1].batch) = 2 /\ Len(patents) = 3
    /\ th[2].op = "read" /\ th[2].pc = "lock"


\* a step of thread t inside optimize_patent: the call or the return
OptimizeStep(t) ==
    /\ th'[t] # th[t]
    /\ th'[t].op # "__init__"
    /\ th[t].op = "optimize_patent" \/ th'[t].op = "optimize_patent"

\* C29: optimize_patent makes one generate_content call and returns its
\* text, and leaves the in-memory collection, the durable file and the
\* backup file as they were, whether the completion succeeds or fails.
C29_OptimizeLeavesStoreAlone ==
    [][\A t \in DOMAIN th :
          OptimizeStep(t) =>
              /\ patents' = patents /\ file' = file /\ backup' = backup
              /\ lock' = lock
              /\ th'[t].op = "optimize_patent" =>
                    /\ th'[t].ret =
                          <<generate_content(th'[t].outs,
                                             DefaultMaxRetries).text>>
                    /\ th'[t].pc = "optimized"]_vars

\* optimize_patent has returned an error text on a store that holds
\* records, a file and a backup
C29_Witness ==
    /\ th[1].op = "optimize_patent" /\ th[1].pc = "optimized"
    /\ GatewayFailed(th[1].outs)
    /\ StartsWithErrorPrefix(th[1].ret[1])
    /\ Len(patents) > 0 /\ Exists(file) /\ Exists(backup)


\* C30: after any sequence of store operations all records of the
\* collection have pairwise distinct ids, so an id addresses one record.
C30_IdsPairwiseDistinct ==
    \A i, j \in 1..Len(patents) :
        i # j => patents[i].id # patents[j].id


\* C36 as stated: for every outcome sequence the sleeps of a generate_content
\* call number its attempts minus one.
C36_SleepsAreAttemptsMinusOne ==
    gpc = "done" => Len(sleeps) = calls - 1

\* C36: in generate_content a backoff sleep happens only between two
\* attempts: a call that made at least one attempt slept once less than it
\* attempted, a call that made none (max_retries = 0) did not sleep, and
\* every sleep is followed by a further attempt.
C36_SleepsOnlyBetweenAttempts ==
    /\ gpc = "done" =>
          Len(sleeps) = (IF calls >= 1 THEN calls - 1 ELSE 0)
    /\ gpc = "sleep" => (Len(sleeps) = calls - 1 /\ calls < max_retries)
    /\ gpc = "loop" => Len(sleeps) = calls

\* three attempts, the first two transient failures: two sleeps
C36_Witness ==
    /\ gpc = "done" /\ max_retries = 3 /\ calls = 3 /\ Len(sleeps) = 2


\* json.load succeeds on the durable file and gives a snapshot
Parses(f) == f.kind = "snapshot"

\* the step of a reload that ends it: the file was not there, or was read
ReloadEnds(t) ==
    /\ th[t].op = "reload" /\ th'[t].op = "none"

\* C35: a reload from the durable file discards a record of the in-memory
\* collection only when a successfully parsed file lacks it: with a missing
\* or unparsable file the collection stays as it was, also after a
\* mutation whose file write failed.
C35_ReloadKeepsRecordsUnlessFileLacksThem ==
    [][\A t \in DOMAIN th :
          ReloadEnds(t) =>
              IF Parses(file)
              THEN patents' = [i \in 1..Len(file.patents) |->
                                  JsonLoadDoc(file.patents[i])]
              ELSE patents' = patents]_vars


\* thread t is in update_patent or delete_patent
InUpdateOrDelete(t) == th[t].op \in {"update_patent", "delete_patent"}

\* C33: update_patent and delete_patent called with an id that is not in
\* the store return false and change nothing: the collection, the primary
\* file and the backup file stay as they are, and no snapshot write (and
\* so no backup rotation) is started.
C33_UnknownIdChangesNothing ==
    /\ [](\A t \in DOMAIN th :
            (InUpdateOrDelete(t) /\ th[t].ret = <<FALSE>>) =>
                th[t].pc = "unlock")
    /\ [][\A t \in DOMAIN th :
            /\ (InUpdateOrDelete(t) /\ th[t].pc = "body"
                    /\ InUpdateOrDelete(t)' /\ th'[t].pc # "body"
                    /\ IndexOf(patents, th'[t].pid) = 0) =>
                    /\ th'[t].ret = <<FALSE>>
                    /\ th'[t].pc = "unlock"
                    /\ patents' = patents /\ file' = file
                    /\ backup' = backup
            /\ (InUpdateOrDelete(t) /\ th[t].ret = <<FALSE>>
                    /\ th'[t].op # "__init__") =>
                    /\ th'[t].op = "none"
                    /\ patents' = patents /\ file' = file
                    /\ backup' = backup]_vars

\* delete_patent has returned false on a store with a record and a file
C33_Witness ==
    /\ th[1].op = "delete_patent" /\ th[1].pc = "unlock"
    /\ th[1].ret = <<FALSE>>
    /\ Len(patents) > 0 /\ Exists(file)


AllUnitsFinished == \A i \in DOMAIN future : future[i] = "finished"

\* C34: a batch dispatch returns only after every submitted unit of work
\* has finished: at the return no unit is running or pending and every
\* result slot is filled, and batch_generate_patents appends to the store
\* only after all units have completed.
C34_ReturnsAfterAllUnitsFinished ==
    /\ [](dpc \in {"returned", "ideas"} =>
            /\ AllUnitsFinished
            /\ DOMAIN dret = 1..Len(inputs))
    /\ [](dpc = "stored" => AllUnitsFinished)
    /\ [][patents' # patents =>
            /\ AllUnitsFinished
            /\ DOMAIN results = 1..Len(inputs)
            /\ Len(patents') = Len(patents) + Len(inputs)]_vars

\* a batch of three patents, one of whose units raised, is in the store
\* and has returned
C34_Witness ==
    /\ dkind = "batch_generate_patents" /\ dpc = "returned"
    /\ Len(inputs) = 3 /\ Len(patents) = 3
    /\ \E i \in 1..3 : fresult[i].raised


(***************************************************************************)
(* Concurrent appends whose file writes succeed: the threads call only     *)
(* generate_full_patent and batch_generate_patents, and no step of         *)
(* _save_patents raises.                                                   *)
(***************************************************************************)
AppendNext ==
    \/ \E t \in DOMAIN th :
        \/ BeginGenerateFullPatent(t)
        \/ GfpBuild(t)
        \/ BeginBatchGeneratePatents(t)
        \/ Acquire(t)
        \/ GfpAppend(t)
        \/ BgpExtend(t)
        \/ SaveData(t)
        \/ SaveRemoveBackup(t)
        \/ SaveCopyBackup(t)
        \/ SaveOpen(t)
        \/ SaveDump(t)
        \/ Release(t)
    \/ Tick

SpecAppend == Init /\ [][AppendNext]_vars

IsPrefix(a, b) == Len(a) <= Len(b) /\ SubSeq(b, 1, Len(a)) = a

\* the documents the call of thread t returns
Returned(t) ==
    IF th[t].op = "generate_full_patent" THEN <<th[t].doc>> ELSE th[t].batch

AllReturned == \A t \in DOMAIN th : th[t].pc = "idle"

\* C31: no append is lost under concurrency.  When generate_full_patent
\* and batch_generate_patents calls run concurrently and their file writes
\* succeed, each call adds the documents it returns to the collection in
\* one step, once, nothing a call added is removed or overwritten by
\* another, and the file a write has finished, the last one included,
\* holds the whole collection.
C31_NoAppendLost ==
    /\ [][IsPrefix(patents, patents')]_vars
    /\ [][\A t \in DOMAIN th :
            (th[t].pc = "body" /\ th'[t].pc # "body") =>
                /\ patents' = patents \o Returned(t)
                /\ Returned(t) # <<>>
                /\ th'[t].ret = <<IF th[t].op = "generate_full_patent"
                                  THEN th[t].doc ELSE th[t].batch>>
                /\ th'[t].pc = "save_data"]_vars
    /\ [][patents' # patents =>
            \E t \in DOMAIN th :
                th[t].pc = "body" /\ th'[t].pc = "save_data"]_vars
    /\ [](\A t \in DOMAIN th :
            th[t].pc = "unlock" => file = Snapshot(patents))
    /\ []((AllReturned /\ ops > 0) => file = Snapshot(patents))

\* two concurrent calls have returned: the record of the earlier run, then
\* three appended documents, all in the file
C31_Witness ==
    /\ AllReturned /\ ops = 2
    /\ Len(patents) = 4 /\ patents[1] = OldDoc
    /\ file = Snapshot(patents)


(***************************************************************************)
(* The store while the process lives, under fair scheduling: a thread that *)
(* is inside an operation goes on running, and a thread waiting for the    *)
(* lock gets it if it is free again and again.                             *)
(***************************************************************************)
\* the steps thread t takes once it is inside an operation
Continue(t) ==
    \/ GfpBuild(t)
    \/ GfpAppend(t)
    \/ BgpExtend(t)
    \/ UpdateApply(t)
    \/ DeleteApply(t)
    \/ Read(t)
    \/ Release(t)
    \/ SaveData(t)
    \/ SaveRemoveBackup(t)
    \/ SaveRemoveBackupFails(t)
    \/ SaveCopyBackup(t)
    \/ SaveCopyBackupFails(t)
    \/ SaveOpen(t)
    \/ SaveOpenFails(t)
    \/ SaveDump(t)
    \/ SaveDumpFails(t)
    \/ SaveRestore(t)
    \/ SaveRestoreFails(t)
    \/ LoadExists(t)
    \/ LoadRead(t)
    \/ OptimizeReturn(t)

LiveNext ==
    \/ \E t \in DOMAIN th :
        \/ BeginGenerateFullPatent(t)
        \/ BeginBatchGeneratePatents(t)
        \/ BeginUpdatePatent(t)
        \/ BeginDeletePatent(t)
        \/ BeginRead(t)
        \/ BeginReload(t)
        \/ OptimizePatent(t)
        \/ Acquire(t)
        \/ Continue(t)
    \/ Tick

\* the store as in Init, with one mutating operation left to the threads
\* next to their reads and optimize_patent calls
LiveInit ==
    /\ GatewayIdle /\ JsonIdle /\ DispatchIdle /\ HeapIdle
    /\ ConstructIdle
    /\ file \in {Absent, Snapshot(<<>>), Snapshot(<<OldDoc>>)}
    /\ backup \in {Absent, Snapshot(<<>>)}
    /\ Exists(backup) => Exists(file)
    /\ patents = LoadPatents(file, <<>>)
    /\ lock = 0
    /\ now = 0
    /\ faults = 0
    /\ ops = MaxOps - 1
    /\ th = [t \in Threads |-> IdleThread]

FairSpecStore ==
    /\ LiveInit /\ [][LiveNext]_vars
    /\ \A t \in Threads : WF_vars(Continue(t)) /\ SF_vars(Acquire(t))

\* C32: the lock is released on every path of every store operation, also
\* when the snapshot write or the restore fails, and no operation asks for
\* the lock while it holds it; so under fair scheduling every thread that
\* calls a store operation gets the lock and returns.
C32_LockReleasedAndNoDeadlock ==
    /\ [](\A t \in Threads :
            /\ th[t].pc = "idle" => lock # t
            /\ th[t].pc = "lock" => lock # t)
    /\ \A t \in Threads :
          /\ (th[t].pc = "lock") ~> (lock = t)
          /\ (th[t].pc # "idle") ~> (th[t].pc = "idle")

\* a write and its restore have both failed and the thread is about to
\* release the lock the other thread waits for
C32_Witness ==
    /\ th[1].pc = "unlock" /\ lock = 1
    /\ {"dump", "restore"} \subseteq th[1].failed
    /\ th[2].pc = "lock"

====
